---- MODULE Spec2Model ----
(***************************************************************************)
(* Leads dashboard: the document-store adapter (services/firestore.ts),    *)
(* the facade built on it (services/api.ts, Firestore version) and the     *)
(* query controller of components/LeadsDashboard.tsx.                      *)
(*                                                                         *)
(* Strings the code inspects character by character (business_name,        *)
(* category, the search text, the category filter) are sequences of        *)
(* one-character strings, so that toLowerCase, includes, split and trim    *)
(* are computed.  Strings that are only compared for equality (status      *)
(* values, ids of tasks) are TLA+ strings.                                 *)
(***************************************************************************)
EXTENDS Integers, Sequences, FiniteSets, TLC

\* ------------------------------------------------------------------------
\* Bounds of the model
\* ------------------------------------------------------------------------
\* Largest seeded collection.
MaxLeads == 11
\* User interactions after the mount.
MaxEvents == 2
\* Asynchronous operations in flight at once.
MaxInflight == 3
\* Calls that fail in transport.
MaxFailures == 1

\* ------------------------------------------------------------------------
\* Program constants
\* ------------------------------------------------------------------------
DefaultLimit == 15
SnapshotLimit == 1000
OverFetchFactor == 3
PageSizes == {10, 15, 25, 50}
StatusFilters == {"all", "not_contacted", "contacted"}
ContactedStatuses == {"contacted", "qualified", "converted"}
\* A stored status field: one of LeadStatus, or the field is missing.
Absent == "absent"
ALL == <<"a", "l", "l">>
EmptyStr == << >>
\* A missing (undefined / null) value, by the type of the value it stands for.
NoStatus == "undefined"
NoStr == <<"undefined">>
NoNum == 0

\* ------------------------------------------------------------------------
\* JavaScript string and array primitives
\* ------------------------------------------------------------------------
ToLowerChar(c) ==
  CASE c = "A" -> "a" [] c = "B" -> "b" [] c = "F" -> "f"
    [] c = "L" -> "l" [] c = "R" -> "r" [] OTHER -> c

ToLowerCase(s) == [i \in 1..Len(s) |-> ToLowerChar(s[i])]

\* String.prototype.includes
Includes(s, q) ==
  \E i \in 0..(Len(s) - Len(q)) : \A j \in 1..Len(q) : s[i + j] = q[j]

\* s.split(',')[0]
FirstToken(s) ==
  IF \E i \in 1..Len(s) : s[i] = ","
  THEN SubSeq(s, 1, (CHOOSE i \in 1..Len(s) :
                        s[i] = "," /\ \A j \in 1..(i - 1) : s[j] # ",") - 1)
  ELSE s

\* String.prototype.trim
Trim(s) ==
  IF \A i \in 1..Len(s) : s[i] = " " THEN EmptyStr
  ELSE LET a == CHOOSE i \in 1..Len(s) : s[i] # " " /\ \A j \in 1..(i - 1) : s[j] = " "
           b == CHOOSE i \in 1..Len(s) : s[i] # " " /\ \A j \in (i + 1)..Len(s) : s[j] = " "
       IN SubSeq(s, a, b)

\* Array.prototype.filter is SelectSeq of Sequences.

\* Array.prototype.slice(a, b) with 0 <= a
Slice(s, a, b) == SubSeq(s, a + 1, IF b < Len(s) THEN b ELSE Len(s))

\* Math.ceil(t / l) for t >= 0, l > 0
Ceil(t, l) == (t + l - 1) \div l

Count(s, P(_)) == Cardinality({i \in 1..Len(s) : P(s[i])})

\* ------------------------------------------------------------------------
\* The seeded collection.  A stored document is
\* [id, business_name, category, status]; a missing category is the empty
\* string (both are falsy wherever the code tests it), a missing status is
\* Absent.  The collection is kept as a sequence in created_at-descending
\* order, the order of every query of the adapter.
\* ------------------------------------------------------------------------
NamePool == << <<"A", "b">>, <<"F", "r">>, <<"b", "a">> >>
CatPool == << <<"R", ",", " ", "F">>, <<"r">>, EmptyStr, <<" ", "F">> >>
StatusPool == <<"new", "contacted", Absent, "qualified", "lost", "converted">>
SearchPool == {EmptyStr, <<"A">>}
CategoryPool == {ALL, <<"r">>, <<"F">>}

Seed(i) ==
  [id |-> i,
   business_name |-> NamePool[(i % 3) + 1],
   category |-> CatPool[(i % 4) + 1],
   status |-> StatusPool[(i % 6) + 1]]

\* A second dataset in which every lead has the same main category.
UniformCatPool == << <<"R", ",", " ", "F">>, <<"r">>, <<" ", "R">>, <<"r", " ">> >>

SeedCollection(n, uniform) ==
  [i \in 1..n |->
     IF uniform THEN [Seed(i) EXCEPT !.category = UniformCatPool[(i % 4) + 1]]
     ELSE Seed(i)]

\* ------------------------------------------------------------------------
\* Document-store adapter: services/firestore.ts
\* ------------------------------------------------------------------------
docToLead(d) ==
  [id |-> d.id,
   business_name |-> d.business_name,
   category |-> d.category,
   status |-> IF d.status = Absent THEN "new" ELSE d.status]

\* const { status = 'all', search, page = 1, limit = 15 } = params
Destructure(params) ==
  [status |-> IF params.status = NoStatus THEN "all" ELSE params.status,
   search |-> params.search,
   page |-> IF params.page = NoNum THEN 1 ELSE params.page,
   limit |-> IF params.limit = NoNum THEN DefaultLimit ELSE params.limit]

\* `if (search)`: undefined and '' are falsy
Truthy(str) == str # NoStr /\ str # EmptyStr

IsContactedStatus(st) == st \in ContactedStatuses

\* query(leadsCollection, [where status in ...], orderBy created_at desc,
\* limit(fetchLimit)) followed by getDocs
QueryDocs(store, params) ==
  LET p == Destructure(params)
      matching == IF p.status = "contacted"
                  THEN SelectSeq(store, LAMBDA d : IsContactedStatus(d.status))
                  ELSE store
      fetchLimit == IF p.status = "not_contacted"
                    THEN p.limit * OverFetchFactor ELSE p.limit
  IN Slice(matching, 0, fetchLimit)

\* the not_contacted filter as the complement of the contacted one
IsNotContactedLeadOrLost(l) == l.status \notin ContactedStatuses

\* lead.status === 'new' || !lead.status
IsNotContactedLead(l) == l.status = "new" \/ l.status = Absent

\* the client-side part of leadsService.getAll, up to the pagination slice
ClientFilter(docs, params) ==
  LET p == Destructure(params)
      mapped == [i \in 1..Len(docs) |-> docToLead(docs[i])]
      byStatus == IF p.status = "not_contacted"
                  THEN SelectSeq(mapped, IsNotContactedLead)
                  ELSE mapped
      bySearch == IF Truthy(p.search)
                  THEN SelectSeq(byStatus, LAMBDA l :
                         Includes(ToLowerCase(l.business_name), ToLowerCase(p.search)))
                  ELSE byStatus
  IN Slice(bySearch, 0, p.limit)

\* getCountFromServer(query(leadsCollection))
CountAll(store) == Len(store)

\* getCountFromServer(query(leadsCollection, where status in [...]))
CountContacted(store) == Count(store, LAMBDA d : IsContactedStatus(d.status))

getStats(all, contacted) ==
  [all |-> all, contacted |-> contacted, notContacted |-> all - contacted]

\* GetAllResult with the stats taken over the filtered page
GetAllResultFilteredStats(leads, all, contacted, params) ==
  LET p == Destructure(params)
      st == getStats(Len(leads), Count(leads, LAMBDA l : IsContactedStatus(l.status)))
  IN [success |-> TRUE,
      data |-> leads,
      total |-> all,
      page |-> p.page,
      limit |-> p.limit,
      totalPages |-> Ceil(all, p.limit),
      stats |-> st]

\* the value leadsService.getAll returns, from what its three reads gave
GetAllResult(leads, all, contacted, params) ==
  LET p == Destructure(params)
      st == getStats(all, contacted)
  IN [success |-> TRUE,
      data |-> leads,
      total |-> st.all,
      page |-> p.page,
      limit |-> p.limit,
      totalPages |-> Ceil(st.all, p.limit),
      stats |-> st]

\* leadsService.getAll when nothing writes between its three reads
getAll(store, params) ==
  GetAllResult(ClientFilter(QueryDocs(store, params), params),
               CountAll(store), CountContacted(store), params)

\* ------------------------------------------------------------------------
\* Facade over the adapter: services/api.ts (Firestore version)
\* ------------------------------------------------------------------------
toAPILead(lead) ==
  [id |-> lead.id,
   _id |-> lead.id,
   business_name |-> lead.business_name,
   category |-> lead.category,
   status |-> lead.status]

\* leadsAPI.getAll wraps the adapter's result: { data: { ...result, data: ... } }
APIGetAll(result) ==
  [result EXCEPT !.data = [i \in 1..Len(result.data) |-> toAPILead(result.data[i])]]

\* ------------------------------------------------------------------------
\* URL parameters: components/LeadsDashboard.tsx
\* A parameter is NoStatus / NoStr when missing; limit and page are decimal strings.
\* ------------------------------------------------------------------------
Digits == <<"0", "1", "2", "3", "4", "5", "6", "7", "8", "9">>

IsDigit(c) == \E d \in 1..10 : Digits[d] = c

DigitValue(c) == (CHOOSE d \in 1..10 : Digits[d] = c) - 1

\* String(n) for n >= 0
RECURSIVE NumberToString(_)
NumberToString(n) ==
  IF n < 10 THEN <<Digits[n + 1]>>
  ELSE NumberToString(n \div 10) \o <<Digits[(n % 10) + 1]>>

NaN == 0 - 1

\* parseInt(s, 10) on a string without sign or leading blanks: the value of
\* the longest prefix of digits, NaN when that prefix is empty
RECURSIVE ParseDigits(_, _)
ParseDigits(s, acc) ==
  IF s = << >> \/ ~IsDigit(Head(s)) THEN acc
  ELSE ParseDigits(Tail(s), 10 * acc + DigitValue(Head(s)))

parseInt(s) ==
  IF s = << >> \/ ~IsDigit(Head(s)) THEN NaN ELSE ParseDigits(s, 0)

isValidStatusFilter(value) == value \in StatusFilters

\* the useState initialisers, lines 23-38
InitSearchQuery(u) == IF Truthy(u.search) THEN u.search ELSE EmptyStr

InitStatusFilter(u) == IF isValidStatusFilter(u.status) THEN u.status ELSE "all"

InitCategoryFilter(u) == IF Truthy(u.category) THEN u.category ELSE ALL

InitItemsPerPage(u) ==
  LET parsed == IF Truthy(u.limit) THEN parseInt(u.limit) ELSE DefaultLimit
  IN IF parsed \in PageSizes THEN parsed ELSE DefaultLimit

InitCurrentPage(u) ==
  LET parsed == IF Truthy(u.page) THEN parseInt(u.page) ELSE 1
  IN IF parsed # NaN /\ parsed > 0 THEN parsed ELSE 1

\* the "Sync state to URL params" effect, lines 82-91
SyncUrl(f) ==
  [status |-> IF f.statusFilter # "all" THEN f.statusFilter ELSE NoStatus,
   category |-> IF f.categoryFilter # ALL THEN f.categoryFilter ELSE NoStr,
   search |-> IF f.searchQuery # EmptyStr THEN f.searchQuery ELSE NoStr,
   limit |-> IF f.itemsPerPage # DefaultLimit
             THEN NumberToString(f.itemsPerPage) ELSE NoStr,
   page |-> IF f.currentPage # 1 THEN NumberToString(f.currentPage) ELSE NoStr]

\* ------------------------------------------------------------------------
\* State
\* ------------------------------------------------------------------------
VARIABLES
  dbs,                    \* the leads collection of the document store, by write
  url,                    \* the search parameters of the location
  mounted,                \* LeadsDashboard has been mounted
  leads, allLeadsForCategories, loading,
  searchQuery, statusFilter, categoryFilter, itemsPerPage, currentPage,
  totalPages, total, stats,
  selectedLead, showDeleteModal, showContactModal, actionLoading,
  tasks,                  \* the suspended asynchronous calls, oldest first
  nIssued,                \* history: number of fetchLeads calls so far
  shown,                  \* history: the fetchLeads call whose result is displayed
  hist,                   \* history: deletes, mutations, failures, old-page request
  origin,                 \* history: the filter state the initial URL was written from
  events,                 \* user interactions so far
  detail,                 \* LeadDetailsPage and its ContactStatusModal
  noteCalls,              \* history: the calls of notesAPI.create, oldest first
  coll,                   \* the leads collection, field by field (adapter calls)
  clock,                  \* the time new Date() gives
  outcome,                \* history: the last adapter call and what it gave
  usersDb,                \* the users collection
  logins,                 \* the suspended calls of usersService.saveGoogleUser
  rec,                    \* a stored document, and what the last read of it returned
  auth,                   \* AuthProvider, localStorage and the logins in progress
  query                   \* a call of leadsAPI.getAll on its own, and what it returned

\* the state of LeadsDashboard
dashboard ==
  <<url, mounted, leads, allLeadsForCategories, loading, searchQuery,
    statusFilter, categoryFilter, itemsPerPage, currentPage, totalPages, total,
    stats, selectedLead, showDeleteModal, showContactModal, actionLoading,
    nIssued, shown, origin>>

\* what no handler of LeadsDashboard reads or writes
elsewhere ==
  <<detail, noteCalls, coll, clock, outcome, usersDb, logins, rec, auth, query>>

vars == <<dbs, tasks, hist, events, dashboard, elsewhere>>

\* the collection now
db == dbs[Len(dbs)]

NoLead ==
  [id |-> 0, _id |-> 0, business_name |-> EmptyStr, category |-> EmptyStr,
   status |-> Absent]

ZeroStats == [all |-> 0, notContacted |-> 0, contacted |-> 0]

NoParams == [status |-> NoStatus, search |-> NoStr, page |-> NoNum, limit |-> NoNum]

\* What a render closes over and fetchLeads reads (its dependency list).
Closure ==
  [statusFilter |-> statusFilter,
   categoryFilter |-> categoryFilter,
   searchQuery |-> searchQuery,
   currentPage |-> currentPage,
   itemsPerPage |-> itemsPerPage,
   allLeadsForCategories |-> allLeadsForCategories]

NoClosure ==
  [statusFilter |-> "all", categoryFilter |-> ALL, searchQuery |-> EmptyStr,
   currentPage |-> 1, itemsPerPage |-> DefaultLimit, allLeadsForCategories |-> << >>]

\* A suspended call: which call it is, the await it is suspended at, the
\* arguments, the version of the collection when it was made and (for the
\* two handlers that call fetchLeads after their await) the closure of the
\* render that made it.
NewTask(kind, pc, seq, params, c, target, newStatus) ==
  [kind |-> kind, pc |-> pc, seq |-> seq, params |-> params, c |-> c,
   target |-> target, newStatus |-> newStatus, ver |-> Len(dbs)]

\* The state the setters of fetchLeads write, threaded through one handler.
View ==
  [leads |-> leads, totalPages |-> totalPages, total |-> total, stats |-> stats,
   loading |-> loading, tasks |-> tasks, nIssued |-> nIssued, shown |-> shown]

NothingShown ==
  [seq |-> 0, params |-> NoParams, page |-> 0, limit |-> 0, path |-> "none",
   read |-> <<0, 0, 0>>, patched |-> FALSE]

\* history of the ContactStatusModal: the submits so far; of the last one the
\* note content (notes.trim()), whether notes were required and whether it
\* called the backend; the note writes that failed after a status update
\* that succeeded; the calls of onSuccess and the lead of the last one.
NoSubmit ==
  [submits |-> 0, content |-> EmptyStr, required |-> FALSE, dispatched |-> FALSE,
   noteFailures |-> 0, succeeded |-> 0, updated |-> NoLead]

\* LeadDetailsPage before it is on screen (id: the :id of the route, 0 when
\* the route is not the details page), with the state of its modal.
NoDetail ==
  [id |-> 0, user |-> FALSE, mounted |-> FALSE, lead |-> NoLead, loading |-> TRUE,
   error |-> "none", editingField |-> "none", saving |-> FALSE,
   showStatusModal |-> FALSE, notes |-> EmptyStr, modalLoading |-> FALSE,
   modalError |-> "none", h |-> NoSubmit]

NoOutcome ==
  [op |-> "none", id |-> 0, known |-> FALSE, result |-> "none", at |-> 0,
   written |-> << >>]

\* no document has been read on its own
NoRead == [collection |-> "none", data |-> << >>, op |-> "none", got |-> << >>]

\* no user: null
NoUser == [google_id |-> "none", email |-> NoStr, firstName |-> NoStr]

\* AuthProvider before it is constructed, with an empty localStorage
NoAuth ==
  [constructed |-> FALSE, stored |-> NoUser, user |-> NoUser, pending |-> << >>,
   returned |-> << >>, saves |-> 0]

\* no call of leadsAPI.getAll on its own
NoQuery == [params |-> NoParams, called |-> FALSE, data |-> << >>, total |-> 0,
            totalPages |-> 0, stats |-> ZeroStats]

\* neither the adapter on its own nor the session is in use
NothingBeyondPages == rec = NoRead /\ auth = NoAuth /\ query = NoQuery

\* nothing but the dashboard is in use
NothingElsewhere ==
  /\ NothingBeyondPages
  /\ detail = NoDetail
  /\ noteCalls = << >>
  /\ coll = << >>
  /\ clock = 0
  /\ outcome = NoOutcome
  /\ usersDb = << >>
  /\ logins = << >>

\* lead.category.split(',')[0].trim()
mainCategory(lead) == Trim(FirstToken(lead.category))

\* isContacted with 'contacted' as the only contacted status
isContactedOnly(lead) == lead.status = "contacted"

isContacted(lead) == lead.status \in ContactedStatuses

\* the status filters of the in-memory branch of fetchLeads, lines 105-114
ThickIsContacted(lead) ==
  lead.status = "contacted" \/ lead.status = "qualified" \/ lead.status = "converted"

ThickIsNotContacted(lead) == lead.status = "new" \/ lead.status = Absent

\* the in-memory branch of fetchLeads, lines 98-139
ThickFilter(c) ==
  LET byCategory ==
        SelectSeq(c.allLeadsForCategories, LAMBDA lead :
          /\ lead.category # EmptyStr
          /\ ToLowerCase(mainCategory(lead)) = ToLowerCase(c.categoryFilter))
      byStatus ==
        IF c.statusFilter = "contacted"
        THEN SelectSeq(byCategory, ThickIsContacted)
        ELSE IF c.statusFilter = "not_contacted"
        THEN SelectSeq(byCategory, ThickIsNotContacted)
        ELSE byCategory
  IN IF c.searchQuery # EmptyStr
     THEN SelectSeq(byStatus, LAMBDA lead :
            Includes(ToLowerCase(lead.business_name), ToLowerCase(c.searchQuery)))
     ELSE byStatus

ThickPage(c) ==
  LET startIndex == (c.currentPage - 1) * c.itemsPerPage
  IN Slice(ThickFilter(c), startIndex, startIndex + c.itemsPerPage)

\* Math.ceil(n / itemsPerPage) || 1
ThickTotalPages(c) ==
  LET n == Ceil(Len(ThickFilter(c)), c.itemsPerPage) IN IF n = 0 THEN 1 ELSE n

ThickStats(c) ==
  LET filteredLeads == ThickFilter(c)
      contactedCount == Count(filteredLeads, LAMBDA l : l.status \in ContactedStatuses)
  IN [all |-> Len(filteredLeads),
      contacted |-> contactedCount,
      notContacted |-> Len(filteredLeads) - contactedCount]

UsesThickPath(c) == c.categoryFilter # ALL /\ Len(c.allLeadsForCategories) > 0

ListParams(c) ==
  [status |-> c.statusFilter,
   search |-> IF c.searchQuery # EmptyStr THEN c.searchQuery ELSE NoStr,
   page |-> c.currentPage,
   limit |-> c.itemsPerPage]

\* fetchLeads, lines 93-161, up to its first await: called from the render
\* whose closure is c, in the state d; gives the state it leaves.
fetchLeads(c, d) ==
  IF UsesThickPath(c)
  THEN [d EXCEPT !.leads = ThickPage(c),
                 !.totalPages = ThickTotalPages(c),
                 !.total = Len(ThickFilter(c)),
                 !.stats = ThickStats(c),
                 !.loading = FALSE,
                 !.nIssued = d.nIssued + 1,
                 !.shown = [seq |-> d.nIssued + 1, params |-> ListParams(c),
                            page |-> c.currentPage, limit |-> c.itemsPerPage,
                            path |-> "thick", read |-> <<0, 0, 0>>,
                            patched |-> FALSE]]
  ELSE [d EXCEPT !.loading = TRUE,
                 !.nIssued = d.nIssued + 1,
                 !.tasks = Append(d.tasks,
                             NewTask("list", "getAll", d.nIssued + 1,
                                     ListParams(c), NoClosure, 0, NoStatus))]

\* The effects that follow a render in which a filter dependency changed:
\* fetchLeads with the page of that render, then setCurrentPage(1) and, when
\* that changed the page, fetchLeads again (lines 163-169).
AfterFilterChange(c, d) ==
  LET d1 == fetchLeads(c, d)
  IN IF c.currentPage # 1 THEN fetchLeads([c EXCEPT !.currentPage = 1], d1) ELSE d1

Commit(d) ==
  /\ leads' = d.leads
  /\ totalPages' = d.totalPages
  /\ total' = d.total
  /\ stats' = d.stats
  /\ loading' = d.loading
  /\ tasks' = d.tasks
  /\ nIssued' = d.nIssued
  /\ shown' = d.shown

Filters(c) ==
  [statusFilter |-> c.statusFilter, categoryFilter |-> c.categoryFilter,
   searchQuery |-> c.searchQuery, itemsPerPage |-> c.itemsPerPage,
   currentPage |-> c.currentPage]

CommitFilters(f) ==
  /\ statusFilter' = f.statusFilter
  /\ categoryFilter' = f.categoryFilter
  /\ searchQuery' = f.searchQuery
  /\ itemsPerPage' = f.itemsPerPage
  /\ currentPage' = f.currentPage
  /\ url' = SyncUrl(f)

\* ------------------------------------------------------------------------
\* Initial states: a seeded collection and a URL written from a filter state
\* ------------------------------------------------------------------------
SeedSizes == {0, MaxLeads}
SmallestPage == 10
OriginFilters ==
  [statusFilter : {"all"}, categoryFilter : {ALL}, searchQuery : {EmptyStr},
   itemsPerPage : {SmallestPage, DefaultLimit}, currentPage : {1}]

NoHistory ==
  [deleted |-> {}, mutations |-> 0, failures |-> 0, listFailed |-> FALSE,
   oldPageSeq |-> 0]

Init ==
  /\ \E n \in SeedSizes, u \in BOOLEAN : dbs = <<SeedCollection(n, u)>>
  /\ origin \in OriginFilters
  /\ url = SyncUrl(origin)
  /\ mounted = FALSE
  /\ leads = << >>
  /\ allLeadsForCategories = << >>
  /\ loading = TRUE
  /\ searchQuery = EmptyStr
  /\ statusFilter = "all"
  /\ categoryFilter = ALL
  /\ itemsPerPage = DefaultLimit
  /\ currentPage = 1
  /\ totalPages = 1
  /\ total = 0
  /\ stats = ZeroStats
  /\ selectedLead = NoLead
  /\ showDeleteModal = FALSE
  /\ showContactModal = FALSE
  /\ actionLoading = FALSE
  /\ tasks = << >>
  /\ nIssued = 0
  /\ shown = NothingShown
  /\ hist = NoHistory
  /\ events = 0
  /\ NothingElsewhere

\* ------------------------------------------------------------------------
\* Mount: the useState initialisers read the URL, then the mount effects run
\* in order: fetchCategories, URL sync, fetchLeads, setCurrentPage(1).
\* ------------------------------------------------------------------------
Mount ==
  /\ ~mounted
  /\ detail.id = 0
  /\ mounted' = TRUE
  /\ LET c == [statusFilter |-> InitStatusFilter(url),
               categoryFilter |-> InitCategoryFilter(url),
               searchQuery |-> InitSearchQuery(url),
               currentPage |-> InitCurrentPage(url),
               itemsPerPage |-> InitItemsPerPage(url),
               allLeadsForCategories |-> << >>]
         cats == NewTask("cats", "getAll", 0,
                         [NoParams EXCEPT !.limit = SnapshotLimit], NoClosure, 0,
                         NoStatus)
         d == [View EXCEPT !.tasks = <<cats>>]
     IN /\ Commit(AfterFilterChange(c, d))
        /\ CommitFilters([Filters(c) EXCEPT !.currentPage = 1])
  /\ UNCHANGED <<dbs, allLeadsForCategories, selectedLead, showDeleteModal,
                 showContactModal, actionLoading, hist, origin, elsewhere, events>>

\* ------------------------------------------------------------------------
\* User interactions
\* ------------------------------------------------------------------------
ModalOpen == showDeleteModal \/ showContactModal

\* The filter bar and the table can be used: mounted, no modal over them.
CanInteract == mounted /\ ~ModalOpen /\ events < MaxEvents

\* A handler that changed filter state, with what its effects left.
FilterChanged(c) ==
  LET d == AfterFilterChange(c, View)
  IN /\ Len(d.tasks) <= MaxInflight
     /\ Commit(d)
     /\ CommitFilters([Filters(c) EXCEPT !.currentPage = 1])
     /\ events' = events + 1
     /\ hist' = [hist EXCEPT !.oldPageSeq =
                                IF c.currentPage # 1 THEN nIssued + 1 ELSE 0]
     /\ UNCHANGED <<dbs, mounted, allLeadsForCategories, selectedLead,
                    showDeleteModal, showContactModal, actionLoading, origin, elsewhere>>

\* the categories memo, lines 54-64: the options of the category select
categories ==
  {mainCategory(allLeadsForCategories[i]) :
     i \in {j \in 1..Len(allLeadsForCategories) :
              allLeadsForCategories[j].category # EmptyStr}}

SetStatusFilter(v) ==
  /\ CanInteract
  /\ v # statusFilter
  /\ FilterChanged([Closure EXCEPT !.statusFilter = v])

SetCategoryFilter(v) ==
  /\ CanInteract
  /\ v # categoryFilter
  /\ FilterChanged([Closure EXCEPT !.categoryFilter = v])

SetSearchQuery(q) ==
  /\ CanInteract
  /\ q # searchQuery
  /\ FilterChanged([Closure EXCEPT !.searchQuery = q])

SetItemsPerPage(n) ==
  /\ CanInteract
  /\ n # itemsPerPage
  /\ FilterChanged([Closure EXCEPT !.itemsPerPage = n])

\* handleSearch: setCurrentPage(1); fetchLeads() of the current render, then
\* the fetchLeads effect of the next render when the page changed.
handleSearch ==
  /\ CanInteract
  /\ FilterChanged(Closure)

\* setCurrentPage(p) from the pagination bar, then the fetchLeads effect.
PageChanged(p) ==
  LET c == [Closure EXCEPT !.currentPage = p]
      d == fetchLeads(c, View)
  IN /\ p # currentPage
     /\ Len(d.tasks) <= MaxInflight
     /\ Commit(d)
     /\ CommitFilters(Filters(c))
     /\ events' = events + 1
     /\ UNCHANGED <<dbs, mounted, allLeadsForCategories, selectedLead,
                    showDeleteModal, showContactModal, actionLoading, hist, origin, elsewhere>>

PaginationShown == totalPages > 1

Max(a, b) == IF a > b THEN a ELSE b
Min(a, b) == IF a < b THEN a ELSE b

PrevPage ==
  /\ CanInteract /\ PaginationShown
  /\ ~(currentPage = 1 \/ loading)
  /\ PageChanged(Max(1, currentPage - 1))

NextPage ==
  /\ CanInteract /\ PaginationShown
  /\ ~(currentPage = totalPages \/ loading)
  /\ PageChanged(Min(totalPages, currentPage + 1))

\* the numbered buttons, lines 499-524
PageButtons ==
  {IF totalPages <= 5 THEN i + 1
   ELSE IF currentPage <= 3 THEN i + 1
   ELSE IF currentPage >= totalPages - 2 THEN totalPages - 4 + i
   ELSE currentPage - 2 + i : i \in 0..(Min(5, totalPages) - 1)}

GoToPage(pageNum) ==
  /\ CanInteract /\ PaginationShown
  /\ ~loading
  /\ pageNum \in PageButtons
  /\ PageChanged(pageNum)

Refresh ==
  /\ CanInteract
  /\ ~loading
  /\ LET d == fetchLeads(Closure, View)
     IN /\ Len(d.tasks) <= MaxInflight
        /\ Commit(d)
  /\ events' = events + 1
  /\ UNCHANGED <<dbs, url, mounted, allLeadsForCategories, searchQuery, statusFilter,
                 categoryFilter, itemsPerPage, currentPage, selectedLead,
                 showDeleteModal, showContactModal, actionLoading, hist, origin, elsewhere>>

\* The rows, and with them the row menus, are rendered only while not loading.
RowShown(lead) == ~loading /\ \E i \in 1..Len(leads) : leads[i] = lead

handleDeleteClick(lead) ==
  /\ CanInteract
  /\ RowShown(lead)
  /\ selectedLead' = lead
  /\ showDeleteModal' = TRUE
  /\ UNCHANGED <<dbs, url, mounted, leads, allLeadsForCategories, loading,
                 searchQuery, statusFilter, categoryFilter, itemsPerPage,
                 currentPage, totalPages, total, stats, showContactModal,
                 actionLoading, tasks, nIssued, shown, hist, origin, elsewhere, events>>

handleContactClick(lead) ==
  /\ CanInteract
  /\ RowShown(lead)
  /\ selectedLead' = lead
  /\ showContactModal' = TRUE
  /\ UNCHANGED <<dbs, url, mounted, leads, allLeadsForCategories, loading,
                 searchQuery, statusFilter, categoryFilter, itemsPerPage,
                 currentPage, totalPages, total, stats, showDeleteModal,
                 actionLoading, tasks, nIssued, shown, hist, origin, elsewhere, events>>

\* onClose of either confirmation modal
CloseModal ==
  /\ ModalOpen /\ ~actionLoading
  /\ showDeleteModal' = FALSE
  /\ showContactModal' = FALSE
  /\ selectedLead' = NoLead
  /\ UNCHANGED <<dbs, url, mounted, leads, allLeadsForCategories, loading,
                 searchQuery, statusFilter, categoryFilter, itemsPerPage,
                 currentPage, totalPages, total, stats, actionLoading, tasks,
                 nIssued, shown, hist, origin, elsewhere, events>>

\* handleDeleteConfirm up to `await leadsAPI.delete(selectedLead._id)`
handleDeleteConfirm ==
  /\ showDeleteModal /\ ~actionLoading
  /\ selectedLead # NoLead
  /\ Len(tasks) < MaxInflight
  /\ actionLoading' = TRUE
  /\ tasks' = Append(tasks, NewTask("delete", "deleteDoc", 0, NoParams, Closure,
                                    selectedLead._id, NoStatus))
  /\ events' = events + 1
  /\ UNCHANGED <<dbs, url, mounted, leads, allLeadsForCategories, loading,
                 searchQuery, statusFilter, categoryFilter, itemsPerPage,
                 currentPage, totalPages, total, stats, selectedLead,
                 showDeleteModal, showContactModal, nIssued, shown, hist, origin, elsewhere>>

\* handleContactConfirm up to `await leadsAPI.update(...)`
handleContactConfirm ==
  /\ showContactModal /\ ~actionLoading
  /\ selectedLead # NoLead
  /\ Len(tasks) < MaxInflight
  /\ actionLoading' = TRUE
  /\ tasks' = Append(tasks,
                NewTask("update", "updateDoc", 0, NoParams, Closure, selectedLead._id,
                        IF isContacted(selectedLead) THEN "new" ELSE "contacted"))
  /\ events' = events + 1
  /\ UNCHANGED <<dbs, url, mounted, leads, allLeadsForCategories, loading,
                 searchQuery, statusFilter, categoryFilter, itemsPerPage,
                 currentPage, totalPages, total, stats, selectedLead,
                 showDeleteModal, showContactModal, nIssued, shown, hist, origin, elsewhere>>

\* ------------------------------------------------------------------------
\* The document store and the continuations of the awaits.
\*
\* dbs is the history of the collection, one entry per write, the last one
\* being the collection now.  A call that reads is suspended from the moment
\* it is made (version t.ver) to the moment its continuation runs, and each
\* of its reads returns the collection as it was at some moment in between,
\* later reads not seeing older versions than earlier ones.  A write is a
\* step of its own, between the call and its continuation.
\* ------------------------------------------------------------------------
Without(seq, i) == SubSeq(seq, 1, i - 1) \o SubSeq(seq, i + 1, Len(seq))

Exists(store, id) == \E k \in 1..Len(store) : store[k].id = id

IdsOf(seq) == {seq[k].id : k \in 1..Len(seq)}

\* A call may fail in transport at any of its awaits (at most MaxFailures
\* calls of a run do); update also rejects when updateDoc finds no document.
Rejects(t) ==
  \/ t.pc = "rejected"
  \/ t.pc # "resolved" /\ hist.failures < MaxFailures

Failed(t) ==
  [hist EXCEPT !.failures = IF t.pc = "rejected" THEN @ ELSE @ + 1]

\* leadsService.delete: deleteDoc succeeds whether or not the document exists
ServeDeleteDoc(i) ==
  /\ tasks[i].kind = "delete" /\ tasks[i].pc = "deleteDoc"
  /\ dbs' = Append(dbs, SelectSeq(db, LAMBDA d : d.id # tasks[i].target))
  /\ tasks' = [tasks EXCEPT ![i].pc = "resolved"]
  /\ UNCHANGED <<url, mounted, leads, allLeadsForCategories, loading,
                 searchQuery, statusFilter, categoryFilter, itemsPerPage,
                 currentPage, totalPages, total, stats, selectedLead,
                 showDeleteModal, showContactModal, actionLoading, nIssued, shown,
                 hist, origin, elsewhere, events>>

\* leadsService.update: updateDoc rejects when the document does not exist
ServeUpdateDoc(i) ==
  /\ tasks[i].kind \in {"update", "submit", "edit"} /\ tasks[i].pc = "updateDoc"
  /\ IF Exists(db, tasks[i].target)
     THEN /\ dbs' = Append(dbs, [k \in 1..Len(db) |->
                      IF db[k].id = tasks[i].target /\ tasks[i].newStatus # NoStatus
                      THEN [db[k] EXCEPT !.status = tasks[i].newStatus]
                      ELSE db[k]])
          /\ tasks' = [tasks EXCEPT ![i].pc = "getDoc", ![i].ver = Len(dbs) + 1]
     ELSE /\ dbs' = dbs
          /\ tasks' = [tasks EXCEPT ![i].pc = "rejected"]
  /\ UNCHANGED <<url, mounted, leads, allLeadsForCategories, loading,
                 searchQuery, statusFilter, categoryFilter, itemsPerPage,
                 currentPage, totalPages, total, stats, selectedLead,
                 showDeleteModal, showContactModal, actionLoading, nIssued, shown,
                 hist, origin, elsewhere, events>>

\* the versions a suspended call may have read
Versions(t) == t.ver..Len(dbs)

\* response.data of leadsAPI.getAll(params) whose getDocs read the collection
\* docsOf and whose two count queries read allOf and contactedOf
Response(params, docsOf, allOf, contactedOf) ==
  APIGetAll(GetAllResult(ClientFilter(QueryDocs(docsOf, params), params),
                         CountAll(allOf), CountContacted(contactedOf), params))

\* fetchLeads after `await leadsAPI.getAll(...)`, lines 149-160
ResolveList(i) ==
  /\ tasks[i].kind = "list"
  /\ \E v1 \in Versions(tasks[i]), v2 \in Versions(tasks[i]), v3 \in Versions(tasks[i]) :
       /\ v1 <= v2 /\ v2 <= v3
       /\ LET r == Response(tasks[i].params, dbs[v1], dbs[v2], dbs[v3])
          IN /\ leads' = r.data
             /\ totalPages' = r.totalPages
             /\ total' = r.total
             /\ stats' = r.stats
             /\ shown' = [seq |-> tasks[i].seq, params |-> tasks[i].params,
                          page |-> r.page, limit |-> r.limit, path |-> "thin",
                          read |-> <<v1, v2, v3>>, patched |-> FALSE]
  /\ loading' = FALSE
  /\ tasks' = Without(tasks, i)
  /\ UNCHANGED <<dbs, url, mounted, allLeadsForCategories, searchQuery, statusFilter,
                 categoryFilter, itemsPerPage, currentPage, selectedLead,
                 showDeleteModal, showContactModal, actionLoading, nIssued, hist,
                 origin, elsewhere, events>>

\* fetchLeads: catch and finally
CatchList(i) ==
  /\ tasks[i].kind = "list" /\ Rejects(tasks[i])
  /\ loading' = FALSE
  /\ tasks' = Without(tasks, i)
  /\ hist' = [Failed(tasks[i]) EXCEPT !.listFailed = TRUE]
  /\ UNCHANGED <<dbs, url, mounted, leads, allLeadsForCategories, searchQuery,
                 statusFilter, categoryFilter, itemsPerPage, currentPage,
                 totalPages, total, stats, selectedLead, showDeleteModal,
                 showContactModal, actionLoading, nIssued, shown, origin, elsewhere, events>>

\* fetchCategories after its await: setAllLeadsForCategories, which gives
\* fetchLeads a new identity, so the fetchLeads effect runs again
ResolveCats(i) ==
  /\ tasks[i].kind = "cats"
  /\ \E v \in Versions(tasks[i]) :
       LET snapshot == Response(tasks[i].params, dbs[v], dbs[v], dbs[v]).data
           d == fetchLeads([Closure EXCEPT !.allLeadsForCategories = snapshot],
                           [View EXCEPT !.tasks = Without(tasks, i)])
       IN /\ allLeadsForCategories' = snapshot
          /\ Commit(d)
  /\ UNCHANGED <<dbs, url, mounted, searchQuery, statusFilter, categoryFilter,
                 itemsPerPage, currentPage, selectedLead, showDeleteModal,
                 showContactModal, actionLoading, hist, origin, elsewhere, events>>

CatchCats(i) ==
  /\ tasks[i].kind = "cats" /\ Rejects(tasks[i])
  /\ tasks' = Without(tasks, i)
  /\ hist' = Failed(tasks[i])
  /\ UNCHANGED <<dbs, url, mounted, leads, allLeadsForCategories, loading,
                 searchQuery, statusFilter, categoryFilter, itemsPerPage,
                 currentPage, totalPages, total, stats, selectedLead,
                 showDeleteModal, showContactModal, actionLoading, nIssued, shown,
                 origin, elsewhere, events>>

\* the finally block of handleDeleteConfirm and handleContactConfirm
Finally ==
  /\ actionLoading' = FALSE
  /\ showDeleteModal' = FALSE
  /\ showContactModal' = FALSE
  /\ selectedLead' = NoLead

\* setLeads(prev => ...) on the displayed rows
Patched(d, rows) ==
  [d EXCEPT !.leads = rows, !.shown = [d.shown EXCEPT !.patched = TRUE]]

\* handleDeleteConfirm after its await: setLeads(prev => prev.filter(...)),
\* then fetchLeads() of the render the handler was created in
ResolveDelete(i) ==
  /\ tasks[i].kind = "delete" /\ tasks[i].pc = "resolved"
  /\ LET removed == SelectSeq(leads, LAMBDA l : l._id # tasks[i].target)
     IN Commit(fetchLeads(tasks[i].c,
                          Patched([View EXCEPT !.tasks = Without(tasks, i)], removed)))
  /\ Finally
  /\ hist' = [hist EXCEPT !.deleted = @ \cup {tasks[i].target},
                          !.mutations = @ + 1]
  /\ UNCHANGED <<dbs, url, mounted, allLeadsForCategories, searchQuery, statusFilter,
                 categoryFilter, itemsPerPage, currentPage, origin, elsewhere, events>>

CatchDelete(i) ==
  /\ tasks[i].kind = "delete" /\ Rejects(tasks[i])
  /\ tasks' = Without(tasks, i)
  /\ Finally
  /\ hist' = Failed(tasks[i])
  /\ UNCHANGED <<dbs, url, mounted, leads, allLeadsForCategories, loading,
                 searchQuery, statusFilter, categoryFilter, itemsPerPage,
                 currentPage, totalPages, total, stats, nIssued, shown, origin, elsewhere,
                 events>>

\* leadsService.update after updateDoc: updatedDoc = await getDoc(docRef), and
\* the document it found, if any
Reread(t, v) == SelectSeq(dbs[v], LAMBDA d : d.id = t.target)

\* handleContactConfirm after its await: patch the row, then fetchLeads()
ResolveUpdate(i) ==
  /\ tasks[i].kind = "update" /\ tasks[i].pc = "getDoc"
  /\ \E v \in Versions(tasks[i]) :
       /\ Reread(tasks[i], v) # << >>
       /\ LET updated == toAPILead(docToLead(Reread(tasks[i], v)[1]))
              patched == [k \in 1..Len(leads) |->
                            IF leads[k]._id = tasks[i].target THEN updated
                            ELSE leads[k]]
          IN Commit(fetchLeads(tasks[i].c,
                               Patched([View EXCEPT !.tasks = Without(tasks, i)],
                                       patched)))
  /\ Finally
  /\ hist' = [hist EXCEPT !.mutations = @ + 1]
  /\ UNCHANGED <<dbs, url, mounted, allLeadsForCategories, searchQuery, statusFilter,
                 categoryFilter, itemsPerPage, currentPage, origin, elsewhere, events>>

\* docToLead(updatedDoc) throws when the document is gone by the time of getDoc
RereadFails(t) ==
  t.pc = "getDoc" /\ \E v \in Versions(t) : Reread(t, v) = << >>

CatchUpdate(i) ==
  /\ tasks[i].kind = "update"
  /\ \/ Rejects(tasks[i]) /\ hist' = Failed(tasks[i])
     \/ RereadFails(tasks[i]) /\ hist' = hist
  /\ tasks' = Without(tasks, i)
  /\ Finally
  /\ UNCHANGED <<dbs, url, mounted, leads, allLeadsForCategories, loading,
                 searchQuery, statusFilter, categoryFilter, itemsPerPage,
                 currentPage, totalPages, total, stats, nIssued, shown, origin, elsewhere,
                 events>>

\* The rows whose menu the user opens: the first and the last one displayed.
ClickRows == {k \in 1..Len(leads) : k = 1 \/ k = Len(leads)}

\* ------------------------------------------------------------------------
\* Specification
\* ------------------------------------------------------------------------
Next ==
  \/ Mount
  \/ \E v \in StatusFilters : SetStatusFilter(v)
  \/ \E v \in categories \cup {ALL} : SetCategoryFilter(v)
  \/ \E q \in SearchPool : SetSearchQuery(q)
  \/ \E n \in PageSizes : SetItemsPerPage(n)
  \/ handleSearch
  \/ PrevPage
  \/ NextPage
  \/ \E p \in PageButtons : GoToPage(p)
  \/ Refresh
  \/ \E k \in ClickRows : handleDeleteClick(leads[k])
  \/ \E k \in ClickRows : handleContactClick(leads[k])
  \/ CloseModal
  \/ handleDeleteConfirm
  \/ handleContactConfirm
  \/ \E i \in 1..Len(tasks) : ServeDeleteDoc(i)
  \/ \E i \in 1..Len(tasks) : ServeUpdateDoc(i)
  \/ \E i \in 1..Len(tasks) : ResolveList(i)
  \/ \E i \in 1..Len(tasks) : CatchList(i)
  \/ \E i \in 1..Len(tasks) : ResolveCats(i)
  \/ \E i \in 1..Len(tasks) : CatchCats(i)
  \/ \E i \in 1..Len(tasks) : ResolveDelete(i)
  \/ \E i \in 1..Len(tasks) : CatchDelete(i)
  \/ \E i \in 1..Len(tasks) : ResolveUpdate(i)
  \/ \E i \in 1..Len(tasks) : CatchUpdate(i)

Spec == Init /\ [][Next]_vars

\* ------------------------------------------------------------------------
\* The mount alone, from the URL of every filter state of a bounded set
\* ------------------------------------------------------------------------
MaxPage == 3
UrlFilters ==
  [statusFilter : StatusFilters, categoryFilter : CategoryPool,
   searchQuery : SearchPool, itemsPerPage : PageSizes, currentPage : 1..MaxPage]

InitUrl ==
  /\ dbs = <<SeedCollection(MaxLeads, FALSE)>>
  /\ origin \in UrlFilters
  /\ url = SyncUrl(origin)
  /\ mounted = FALSE
  /\ leads = << >>
  /\ allLeadsForCategories = << >>
  /\ loading = TRUE
  /\ searchQuery = EmptyStr
  /\ statusFilter = "all"
  /\ categoryFilter = ALL
  /\ itemsPerPage = DefaultLimit
  /\ currentPage = 1
  /\ totalPages = 1
  /\ total = 0
  /\ stats = ZeroStats
  /\ selectedLead = NoLead
  /\ showDeleteModal = FALSE
  /\ showContactModal = FALSE
  /\ actionLoading = FALSE
  /\ tasks = << >>
  /\ nIssued = 0
  /\ shown = NothingShown
  /\ hist = NoHistory
  /\ events = 0
  /\ NothingElsewhere

NextUrl == Mount

SpecUrl == InitUrl /\ [][NextUrl]_vars

\* ------------------------------------------------------------------------
\* LeadDetailsPage and ContactStatusModal
\* ------------------------------------------------------------------------
MinNoteLength == 10
LoadError == "Failed to load lead details. Please try again."
NotesError == "Please add notes about the contact (minimum 10 characters)"
UpdateError == "Failed to update status. Please try again."
EditFields == {"phone", "email", "website"}

\* what the user types into the notes field
NineChars == <<"c", "a", "l", "l", "e", "d", " ", "i", "n">>
NotePool ==
  {EmptyStr, NineChars, NineChars \o <<" ">>, <<" ">> \o NineChars \o <<" ", " ">>,
   NineChars \o <<"!">>, <<" ">> \o NineChars \o <<"!">>}

\* what no handler of LeadDetailsPage or ContactStatusModal reads or writes
beyondDetails ==
  <<dashboard, coll, clock, outcome, usersDb, logins, rec, auth, query>>

\* ContactStatusModal, lines 332-334 of part_002
ModalIsContacted(lead) ==
  lead.status = "contacted" \/ lead.status = "qualified" \/ lead.status = "converted"

\* newStatus with the name of the status filter for the not contacted side
ModalNewStatusAsFilter(lead) ==
  IF ModalIsContacted(lead) THEN "not_contacted" ELSE "contacted"

ModalNewStatus(lead) == IF ModalIsContacted(lead) THEN "new" ELSE "contacted"

requiresNotes(lead) == ~ModalIsContacted(lead)

\* LeadDetailsPage, line 378 of part_001
DetailsIsContacted(lead) ==
  lead.status = "contacted" \/ lead.status = "qualified" \/ lead.status = "converted"

\* The page renders its content (and the modal) once the lead is loaded.
DetailsShown == detail.mounted /\ ~detail.loading /\ detail.error = "none"
                /\ detail.lead # NoLead

\* the mount effect of LeadDetailsPage: fetchLeadDetails up to its await
MountDetails ==
  /\ detail.id # 0 /\ ~detail.mounted
  /\ detail' = [detail EXCEPT !.mounted = TRUE, !.loading = TRUE, !.error = "none"]
  /\ tasks' = Append(tasks, NewTask("getById", "getDoc", 0, NoParams, NoClosure,
                                    detail.id, NoStatus))
  /\ UNCHANGED <<dbs, hist, events, noteCalls, beyondDetails>>

\* fetchLeadDetails after `await leadsAPI.getById(id)`: leadsService.getById
\* throws 'Lead not found' when the document does not exist, and the catch
\* block shows the same message as for any other failure
ResolveGetById(i) ==
  /\ tasks[i].kind = "getById" /\ tasks[i].pc = "getDoc"
  /\ \E v \in Versions(tasks[i]) :
       LET found == Reread(tasks[i], v)
       IN detail' = IF found # << >>
                    THEN [detail EXCEPT !.lead = toAPILead(docToLead(found[1])),
                                        !.loading = FALSE]
                    ELSE [detail EXCEPT !.error = LoadError, !.loading = FALSE]
  /\ tasks' = Without(tasks, i)
  /\ UNCHANGED <<dbs, hist, events, noteCalls, beyondDetails>>

CatchGetById(i) ==
  /\ tasks[i].kind = "getById" /\ Rejects(tasks[i])
  /\ detail' = [detail EXCEPT !.error = LoadError, !.loading = FALSE]
  /\ tasks' = Without(tasks, i)
  /\ hist' = Failed(tasks[i])
  /\ UNCHANGED <<dbs, events, noteCalls, beyondDetails>>

\* the "Mark Contacted" / "Undo Contact" button; the effect on isOpen resets
\* the form of the modal
OpenStatusModal ==
  /\ DetailsShown /\ ~detail.showStatusModal
  /\ detail' = [detail EXCEPT !.showStatusModal = TRUE, !.notes = EmptyStr,
                              !.modalError = "none"]
  /\ UNCHANGED <<dbs, tasks, hist, events, noteCalls, beyondDetails>>

\* onClose from the X, Cancel, the backdrop or Escape: not while loading
CloseStatusModal ==
  /\ detail.showStatusModal /\ ~detail.modalLoading
  /\ detail' = [detail EXCEPT !.showStatusModal = FALSE]
  /\ UNCHANGED <<dbs, tasks, hist, events, noteCalls, beyondDetails>>

\* the notes field, rendered when notes are required
SetNotes(n) ==
  /\ DetailsShown /\ detail.showStatusModal /\ requiresNotes(detail.lead)
  /\ detail.notes # n
  /\ detail' = [detail EXCEPT !.notes = n]
  /\ UNCHANGED <<dbs, tasks, hist, events, noteCalls, beyondDetails>>

\* notes.length < 10, without the trim
TooShortUntrimmed(notes) == Len(notes) < MinNoteLength

\* notes.trim().length < 10
TooShort(notes) == Len(Trim(notes)) < MinNoteLength

\* handleSubmit can run: from the button, disabled while loading or while the
\* notes are too short, or from the form (Enter in the date field, which is
\* rendered when notes are required)
CanSubmit ==
  /\ DetailsShown /\ detail.showStatusModal
  /\ \/ requiresNotes(detail.lead)
     \/ ~detail.modalLoading

\* what handleSubmit closes over
SubmitClosure ==
  [notes |-> Trim(detail.notes), requiresNotes |-> requiresNotes(detail.lead),
   user |-> detail.user, updated |-> NoLead, call |-> 0]

\* handleSubmit, lines 371-406 of part_002, up to `await leadsAPI.update(...)`
handleSubmit ==
  /\ CanSubmit
  /\ events < MaxEvents /\ Len(tasks) < MaxInflight
  /\ events' = events + 1
  /\ LET c == SubmitClosure
         h == [detail.h EXCEPT !.submits = @ + 1, !.content = c.notes,
                               !.required = c.requiresNotes]
     IN IF c.requiresNotes /\ TooShort(detail.notes)
        THEN /\ detail' = [detail EXCEPT !.modalError = NotesError,
                                         !.h = [h EXCEPT !.dispatched = FALSE]]
             /\ tasks' = tasks
        ELSE /\ detail' = [detail EXCEPT !.modalLoading = TRUE, !.modalError = "none",
                                         !.h = [h EXCEPT !.dispatched = TRUE]]
             /\ tasks' = Append(tasks,
                           NewTask("submit", "updateDoc", 0, NoParams, c,
                                   detail.lead._id, ModalNewStatus(detail.lead)))
  /\ UNCHANGED <<dbs, hist, noteCalls, beyondDetails>>

\* the end of a handleSubmit that succeeded: onSuccess (handleStatusUpdate:
\* setLead), onClose, and setLoading(false) of the finally block
Succeed(d, updated) ==
  [d EXCEPT !.lead = updated, !.showStatusModal = FALSE, !.modalLoading = FALSE,
            !.h = [@ EXCEPT !.succeeded = @ + 1, !.updated = updated]]

\* the outer catch and the finally block of handleSubmit
Fail(d) == [d EXCEPT !.modalError = UpdateError, !.modalLoading = FALSE]

\* a rejected notesAPI.create propagating to the outer catch
NoteFailureThrown(d, updated) ==
  Fail([d EXCEPT !.h = [@ EXCEPT !.noteFailures = @ + 1]])

\* the inner catch of handleSubmit: the rejection of notesAPI.create is
\* logged, and the handler goes on to onSuccess and onClose
NoteFailureLogged(d, updated) ==
  Succeed([d EXCEPT !.h = [@ EXCEPT !.noteFailures = @ + 1]], updated)

\* handleSubmit after `await leadsAPI.update(...)`: the call of
\* notesAPI.create when notes were required and given and a user is signed
\* in, the end of the handler otherwise
ResolveSubmit(i) ==
  /\ tasks[i].kind = "submit" /\ tasks[i].pc = "getDoc"
  /\ \E v \in Versions(tasks[i]) :
       /\ Reread(tasks[i], v) # << >>
       /\ LET updated == toAPILead(docToLead(Reread(tasks[i], v)[1]))
              c == tasks[i].c
          IN IF c.requiresNotes /\ c.notes # EmptyStr /\ c.user
             THEN /\ tasks' = [tasks EXCEPT ![i].pc = "addDoc",
                                            ![i].c = [c EXCEPT !.updated = updated,
                                                               !.call = Len(noteCalls) + 1]]
                  /\ noteCalls' = Append(noteCalls,
                                     [lead_id |-> tasks[i].target, content |-> c.notes,
                                      stored |-> FALSE])
                  /\ UNCHANGED <<detail, hist>>
             ELSE /\ tasks' = Without(tasks, i)
                  /\ detail' = Succeed(detail, updated)
                  /\ hist' = [hist EXCEPT !.mutations = @ + 1]
                  /\ noteCalls' = noteCalls
  /\ UNCHANGED <<dbs, events, beyondDetails>>

\* the update failed: rejected by the store or in transport, or the document
\* was gone when leadsService.update read it back
CatchSubmit(i) ==
  /\ tasks[i].kind = "submit" /\ tasks[i].pc # "addDoc"
  /\ \/ Rejects(tasks[i]) /\ hist' = Failed(tasks[i])
     \/ RereadFails(tasks[i]) /\ hist' = hist
  /\ tasks' = Without(tasks, i)
  /\ detail' = Fail(detail)
  /\ UNCHANGED <<dbs, events, noteCalls, beyondDetails>>

\* notesService.create: addDoc stores the note; handleSubmit then ends
ResolveNote(i) ==
  /\ tasks[i].kind = "submit" /\ tasks[i].pc = "addDoc"
  /\ noteCalls' = [noteCalls EXCEPT ![tasks[i].c.call].stored = TRUE]
  /\ tasks' = Without(tasks, i)
  /\ detail' = Succeed(detail, tasks[i].c.updated)
  /\ hist' = [hist EXCEPT !.mutations = @ + 1]
  /\ UNCHANGED <<dbs, events, beyondDetails>>

\* notesAPI.create rejects
CatchNote(i) ==
  /\ tasks[i].kind = "submit" /\ tasks[i].pc = "addDoc"
  /\ hist.failures < MaxFailures
  /\ tasks' = Without(tasks, i)
  /\ detail' = NoteFailureLogged(detail, tasks[i].c.updated)
  /\ hist' = [hist EXCEPT !.failures = @ + 1, !.mutations = @ + 1]
  /\ UNCHANGED <<dbs, events, noteCalls, beyondDetails>>

\* the pencil next to phone, email or website
handleStartEdit(field) ==
  /\ DetailsShown /\ ~detail.showStatusModal
  /\ detail.editingField # field
  /\ detail' = [detail EXCEPT !.editingField = field]
  /\ UNCHANGED <<dbs, tasks, hist, events, noteCalls, beyondDetails>>

handleCancelEdit ==
  /\ DetailsShown /\ ~detail.showStatusModal
  /\ detail.editingField # "none"
  /\ detail' = [detail EXCEPT !.editingField = "none"]
  /\ UNCHANGED <<dbs, tasks, hist, events, noteCalls, beyondDetails>>

\* handleSaveEdit up to `await leadsAPI.update(lead._id, { [editingField]: editValue })`
handleSaveEdit ==
  /\ DetailsShown /\ ~detail.showStatusModal
  /\ detail.editingField # "none" /\ ~detail.saving
  /\ events < MaxEvents /\ Len(tasks) < MaxInflight
  /\ events' = events + 1
  /\ detail' = [detail EXCEPT !.saving = TRUE]
  /\ tasks' = Append(tasks, NewTask("edit", "updateDoc", 0, NoParams, NoClosure,
                                    detail.lead._id, NoStatus))
  /\ UNCHANGED <<dbs, hist, noteCalls, beyondDetails>>

\* handleSaveEdit after its await
ResolveEdit(i) ==
  /\ tasks[i].kind = "edit" /\ tasks[i].pc = "getDoc"
  /\ \E v \in Versions(tasks[i]) :
       /\ Reread(tasks[i], v) # << >>
       /\ detail' = [detail EXCEPT !.lead = toAPILead(docToLead(Reread(tasks[i], v)[1])),
                                   !.editingField = "none", !.saving = FALSE]
  /\ tasks' = Without(tasks, i)
  /\ hist' = [hist EXCEPT !.mutations = @ + 1]
  /\ UNCHANGED <<dbs, events, noteCalls, beyondDetails>>

CatchEdit(i) ==
  /\ tasks[i].kind = "edit"
  /\ \/ Rejects(tasks[i]) /\ hist' = Failed(tasks[i])
     \/ RereadFails(tasks[i]) /\ hist' = hist
  /\ tasks' = Without(tasks, i)
  /\ detail' = [detail EXCEPT !.saving = FALSE]
  /\ UNCHANGED <<dbs, events, noteCalls, beyondDetails>>

\* The leads whose page is opened: one of each stored status, and an id that
\* is not in the collection.
DetailIds == 1..Len(StatusPool) \cup {MaxLeads + 1}

\* LeadsDashboard before its first render
Unmounted ==
  /\ mounted = FALSE
  /\ leads = << >>
  /\ allLeadsForCategories = << >>
  /\ loading = TRUE
  /\ searchQuery = EmptyStr
  /\ statusFilter = "all"
  /\ categoryFilter = ALL
  /\ itemsPerPage = DefaultLimit
  /\ currentPage = 1
  /\ totalPages = 1
  /\ total = 0
  /\ stats = ZeroStats
  /\ selectedLead = NoLead
  /\ showDeleteModal = FALSE
  /\ showContactModal = FALSE
  /\ actionLoading = FALSE
  /\ nIssued = 0
  /\ shown = NothingShown

\* the route is /leads/:id
InitDetails ==
  /\ dbs = <<SeedCollection(MaxLeads, FALSE)>>
  /\ \E id \in DetailIds, u \in BOOLEAN : detail = [NoDetail EXCEPT !.id = id, !.user = u]
  /\ origin \in OriginFilters /\ origin.itemsPerPage = DefaultLimit
  /\ url = SyncUrl(origin)
  /\ Unmounted
  /\ tasks = << >>
  /\ hist = NoHistory
  /\ events = 0
  /\ noteCalls = << >>
  /\ coll = << >>
  /\ clock = 0
  /\ outcome = NoOutcome
  /\ usersDb = << >>
  /\ logins = << >>
  /\ NothingBeyondPages

NextDetails ==
  \/ MountDetails
  \/ \E i \in 1..Len(tasks) : ResolveGetById(i)
  \/ \E i \in 1..Len(tasks) : CatchGetById(i)
  \/ OpenStatusModal
  \/ CloseStatusModal
  \/ \E n \in NotePool : SetNotes(n)
  \/ handleSubmit
  \/ \E i \in 1..Len(tasks) : ServeUpdateDoc(i)
  \/ \E i \in 1..Len(tasks) : ResolveSubmit(i)
  \/ \E i \in 1..Len(tasks) : CatchSubmit(i)
  \/ \E i \in 1..Len(tasks) : ResolveNote(i)
  \/ \E i \in 1..Len(tasks) : CatchNote(i)
  \/ \E field \in EditFields : handleStartEdit(field)
  \/ handleCancelEdit
  \/ handleSaveEdit
  \/ \E i \in 1..Len(tasks) : ResolveEdit(i)
  \/ \E i \in 1..Len(tasks) : CatchEdit(i)

SpecDetails == InitDetails /\ [][NextDetails]_vars

\* Either page: the dashboard at /, or the details page at /leads/:id.
InitPages == Init \/ InitDetails

NextPages == Next \/ NextDetails

SpecPages == InitPages /\ [][NextPages]_vars

\* ------------------------------------------------------------------------
\* The adapter called with any id and any partial payload, one call at a
\* time.  A document is its data, a function of the names of its fields, and
\* coll maps the ids of the documents that exist to their data.
\* ------------------------------------------------------------------------
MaxDocs == 2
MaxCalls == 2

\* the ids a caller passes: those of the seeded documents and one more
CallIds == 1..(MaxDocs + 1)

SeedData(i) ==
  IF i % 2 = 1
  THEN [business_name |-> NamePool[1], status |-> "new", updated_at |-> 0]
  ELSE [business_name |-> NamePool[2], updated_at |-> 0]

\* the values a payload gives to the fields it carries
PayloadValue ==
  [_id |-> MaxDocs + 2, id |-> MaxDocs + 3, status |-> "contacted",
   phone |-> <<"5">>, updated_at |-> 0]

Payloads == {[f \in S |-> PayloadValue[f]] : S \in SUBSET (DOMAIN PayloadValue)}

\* { ...a, ...b }
Merge(a, b) == [f \in DOMAIN a \cup DOMAIN b |-> IF f \in DOMAIN b THEN b[f] ELSE a[f]]

\* a without the field f
Omit(a, f) == [g \in DOMAIN a \ {f} |-> a[g]]

Field(data, f) == IF f \in DOMAIN data THEN data[f] ELSE Absent

\* docToLead, of the snapshot of document id
docToLeadOf(id, data) ==
  [id |-> id,
   business_name |-> Field(data, "business_name"),
   phone |-> Field(data, "phone"),
   status |-> IF Field(data, "status") = Absent THEN "new" ELSE data["status"],
   updated_at |-> Field(data, "updated_at")]

\* toFirestoreLead without the translation of the key field
toFirestoreLeadKeepingKey(lead) == lead

\* toFirestoreLead: _id is taken out, and given back as id
toFirestoreLead(lead) ==
  IF "_id" \in DOMAIN lead
  THEN Merge(Omit(lead, "_id"), [id |-> lead["_id"]])
  ELSE lead

\* leadsService.update: the data handed to updateDoc
updateData(data, now) == Omit(Merge(data, [updated_at |-> now]), "id")

\* what no adapter call reads or writes
beyondAdapter ==
  <<dbs, tasks, hist, events, dashboard, detail, noteCalls, usersDb, logins, rec, auth,
    query>>

Called(op, id, result, written) ==
  /\ clock < MaxCalls
  /\ clock' = clock + 1
  /\ outcome' = [op |-> op, id |-> id, known |-> id \in DOMAIN coll,
                 result |-> result, at |-> clock', written |-> written]
  /\ UNCHANGED beyondAdapter

\* leadsAPI.getById(id): 'Lead not found' is thrown when the document does
\* not exist
getById(id) ==
  /\ Called("getById", id, IF id \in DOMAIN coll THEN "ok" ELSE "Lead not found",
            << >>)
  /\ coll' = coll

\* leadsAPI.update(id, data): updateDoc rejects with not-found when the
\* document does not exist, and merges the data into it otherwise
update(id, data) ==
  LET written == updateData(toFirestoreLead(data), clock + 1)
  IN IF id \in DOMAIN coll
     THEN /\ Called("update", id, "ok", written)
          /\ coll' = [coll EXCEPT ![id] = Merge(@, written)]
     ELSE /\ Called("update", id, "not-found", written)
          /\ coll' = coll

\* leadsAPI.delete(id): deleteDoc resolves whether the document exists or not
delete(id) ==
  /\ Called("delete", id, "ok", << >>)
  /\ coll' = [i \in DOMAIN coll \ {id} |-> coll[i]]

\* any of the three calls fails in transport
Unavailable(op, id) ==
  /\ Called(op, id, "unavailable", << >>)
  /\ coll' = coll

InitAdapter ==
  /\ \E n \in 0..MaxDocs : coll = [i \in 1..n |-> SeedData(i)]
  /\ clock = 0
  /\ outcome = NoOutcome
  /\ dbs = << << >> >>
  /\ origin \in OriginFilters /\ origin.itemsPerPage = DefaultLimit
  /\ url = SyncUrl(origin)
  /\ Unmounted
  /\ tasks = << >>
  /\ hist = NoHistory
  /\ events = 0
  /\ detail = NoDetail
  /\ noteCalls = << >>
  /\ usersDb = << >>
  /\ logins = << >>
  /\ NothingBeyondPages

NextAdapter ==
  \/ \E id \in CallIds : getById(id)
  \/ \E id \in CallIds, data \in Payloads : update(id, data)
  \/ \E id \in CallIds : delete(id)
  \/ \E op \in {"getById", "update", "delete"}, id \in CallIds : Unavailable(op, id)

SpecAdapter == InitAdapter /\ [][NextAdapter]_vars

\* ------------------------------------------------------------------------
\* usersService.saveGoogleUser, called by the logins of any number of
\* sessions: each call is suspended at its getDocs, then at its updateDoc or
\* its addDoc.  logins keeps the calls that returned, with their isNew.
\* ------------------------------------------------------------------------
MaxLogins == 3
GoogleIds == {"sub-1", "sub-2"}

\* what no call of saveGoogleUser reads or writes
beyondUsers ==
  <<dbs, tasks, hist, events, dashboard, detail, noteCalls, coll, clock, outcome,
    rec, auth, query>>

\* the documents of the users collection with this google_id
UsersWith(g) == SelectSeq(usersDb, LAMBDA u : u.google_id = g)

\* saveGoogleUser(userData) up to `await getDocs(q)`
saveGoogleUser(g) ==
  /\ Len(logins) < MaxLogins
  /\ logins' = Append(logins, [google_id |-> g, pc |-> "getDocs", existing |-> 0,
                               isNew |-> FALSE])
  /\ UNCHANGED <<usersDb, beyondUsers>>

\* the query returns: !snapshot.empty chooses the update of snapshot.docs[0],
\* an empty one the creation
QueryReturns(i) ==
  /\ logins[i].pc = "getDocs"
  /\ logins' = IF UsersWith(logins[i].google_id) # << >>
               THEN [logins EXCEPT ![i].pc = "updateDoc",
                                   ![i].existing = UsersWith(logins[i].google_id)[1].id]
               ELSE [logins EXCEPT ![i].pc = "addDoc"]
  /\ UNCHANGED <<usersDb, beyondUsers>>

\* updateDoc of the existing user, and the return with isNew: false
UpdateReturns(i) ==
  /\ logins[i].pc = "updateDoc"
  /\ usersDb' = [k \in 1..Len(usersDb) |->
                   IF usersDb[k].id = logins[i].existing
                   THEN [usersDb[k] EXCEPT !.last_login = i]
                   ELSE usersDb[k]]
  /\ logins' = [logins EXCEPT ![i].pc = "returned", ![i].isNew = FALSE]
  /\ UNCHANGED beyondUsers

\* addDoc of a new user, and the return with isNew: true
AddReturns(i) ==
  /\ logins[i].pc = "addDoc"
  /\ usersDb' = Append(usersDb, [id |-> Len(usersDb) + 1,
                                 google_id |-> logins[i].google_id,
                                 last_login |-> i])
  /\ logins' = [logins EXCEPT ![i].pc = "returned", ![i].existing = Len(usersDb) + 1,
                              ![i].isNew = TRUE]
  /\ UNCHANGED beyondUsers

InitUsers ==
  /\ usersDb \in {<< >>, <<[id |-> 1, google_id |-> "sub-1", last_login |-> 0]>>}
  /\ logins = << >>
  /\ dbs = << << >> >>
  /\ origin \in OriginFilters /\ origin.itemsPerPage = DefaultLimit
  /\ url = SyncUrl(origin)
  /\ Unmounted
  /\ tasks = << >>
  /\ hist = NoHistory
  /\ events = 0
  /\ detail = NoDetail
  /\ noteCalls = << >>
  /\ coll = << >>
  /\ clock = 0
  /\ outcome = NoOutcome
  /\ NothingBeyondPages

NextUsers ==
  \/ \E g \in GoogleIds : saveGoogleUser(g)
  \/ \E i \in 1..Len(logins) : QueryReturns(i)
  \/ \E i \in 1..Len(logins) : UpdateReturns(i)
  \/ \E i \in 1..Len(logins) : AddReturns(i)

SpecUsers == InitUsers /\ [][NextUsers]_vars

\* ------------------------------------------------------------------------
\* The mount from the URL of every filter state of the bounded set, followed
\* by the continuations of the calls its effects made
\* ------------------------------------------------------------------------
NextMounted ==
  \/ Mount
  \/ \E i \in 1..Len(tasks) : ResolveList(i)
  \/ \E i \in 1..Len(tasks) : CatchList(i)
  \/ \E i \in 1..Len(tasks) : ResolveCats(i)
  \/ \E i \in 1..Len(tasks) : CatchCats(i)

SpecMounted == InitUrl /\ [][NextMounted]_vars

\* ------------------------------------------------------------------------
\* The adapter as the two pages call it: leadsAPI.update is given
\* { status: newStatus } by handleContactConfirm and by the handleSubmit of
\* the modal, and { [editingField]: editValue } by handleSaveEdit.
\* ------------------------------------------------------------------------
\* what the user leaves in the input of an edited field
EditValues == {EmptyStr, <<"5">>}

StatusPayloads == {[status |-> st] : st \in {"new", "contacted"}}

EditPayloads == {[f \in {field} |-> v] : field \in EditFields, v \in EditValues}

NextFacade ==
  \/ \E id \in CallIds : getById(id)
  \/ \E id \in CallIds, data \in StatusPayloads \cup EditPayloads : update(id, data)
  \/ \E id \in CallIds : delete(id)
  \/ \E op \in {"getById", "update", "delete"}, id \in CallIds : Unavailable(op, id)

SpecFacade == InitAdapter /\ [][NextFacade]_vars

\* ------------------------------------------------------------------------
\* The reads of the adapter, one stored document at a time.  The data of a
\* document is a function of the names of its fields; the value of a
\* timestamp field is a native Timestamp of the store or a text.
\* ------------------------------------------------------------------------
MaxStamp == 2

Native(t) == [native |-> TRUE, at |-> t]

Text(t) == [native |-> FALSE, at |-> t]

\* stands for a timestamp field that the document does not have
NoStamp == Text(NoNum)

\* the value of a stored timestamp field, or NoStamp for a field that is missing
StoredStamps(optional) ==
  {[native |-> n, at |-> t] : n \in BOOLEAN, t \in 1..MaxStamp}
    \cup (IF optional THEN {NoStamp} ELSE {})

\* the document with these timestamp fields, less the missing ones
WithStamps(base, stamps) ==
  Merge(base, [f \in {g \in DOMAIN stamps : stamps[g] # NoStamp} |-> stamps[f]])

StoredData(collection) ==
  CASE collection = "leads" ->
         {WithStamps([business_name |-> NamePool[1]], [created_at |-> c, updated_at |-> u]) :
            c \in StoredStamps(TRUE), u \in StoredStamps(TRUE)}
    [] collection = "notes" ->
         {WithStamps([lead_id |-> 1], [created_at |-> c, updated_at |-> u, contact_date |-> d]) :
            c \in StoredStamps(FALSE), u \in StoredStamps(TRUE), d \in StoredStamps(TRUE)}
    [] collection = "enrichment_log" ->
         {WithStamps([lead_id |-> 1], [created_at |-> c, processed_at |-> p]) :
            c \in StoredStamps(TRUE), p \in StoredStamps(TRUE)}
    [] OTHER ->
         {WithStamps([lead_id |-> 1], [created_at |-> c]) : c \in StoredStamps(TRUE)}

Collections == {"leads", "notes", "contacts", "social_profiles", "enrichment_log"}

\* v instanceof Timestamp ? v.toDate().toISOString() : v
ToISOStringIfNative(v) == IF v.native THEN Text(v.at) ELSE v

\* docToLead, lines 130-156: the fields it names, created_at and updated_at
\* converted
docToLeadDates(id, data) ==
  Merge([id |-> id],
        [f \in {"business_name", "created_at", "updated_at"} \cap DOMAIN data |->
           IF f \in {"created_at", "updated_at"} THEN ToISOStringIfNative(data[f])
           ELSE data[f]])

\* { id: doc.id, ...doc.data() }
SpreadDoc(id, data) == Merge([id |-> id], data)

\* notesService.getForLead, lines 324-330: the spread, with created_at converted
NoteOfGetForLead(id, data) ==
  Merge(SpreadDoc(id, data), [created_at |-> ToISOStringIfNative(data["created_at"])])

\* toAPILead, toAPINote and the maps of leadsAPI.getById: { ...r, _id: r.id }
WithPublicKey(r) == Merge(r, [_id |-> r["id"]])

\* what none of these reads touches
beyondReads ==
  <<dbs, tasks, hist, events, dashboard, detail, noteCalls, coll, clock, outcome,
    usersDb, logins, auth, query>>

Read(op, got) ==
  /\ rec' = [rec EXCEPT !.op = op, !.got = WithPublicKey(got)]
  /\ UNCHANGED beyondReads

\* leadsAPI.getAll and the lead of leadsAPI.getById
ReadLead(op) ==
  /\ rec.collection = "leads"
  /\ Read(op, docToLeadDates(1, rec.data))

\* leadsAPI.update: updated_at is written as a text, the document is read back
UpdateLead ==
  /\ rec.collection = "leads"
  /\ LET written == Merge(rec.data, [updated_at |-> Text(MaxStamp + 1)])
     IN /\ rec' = [rec EXCEPT !.data = written, !.op = "update",
                               !.got = WithPublicKey(docToLeadDates(1, written))]
        /\ UNCHANGED beyondReads

\* the contacts, socialProfiles and enrichmentLog of leadsAPI.getById
ReadRelated ==
  /\ rec.collection \in {"contacts", "social_profiles", "enrichment_log"}
  /\ Read("getById", SpreadDoc(1, rec.data))

\* notesAPI.getForLead
ReadNotes ==
  /\ rec.collection = "notes"
  /\ Read("getForLead", NoteOfGetForLead(1, rec.data))

\* notesAPI.update: updated_at is written as a text, the document is read back
UpdateNote ==
  /\ rec.collection = "notes"
  /\ LET written == Merge(rec.data, [updated_at |-> Text(MaxStamp + 1)])
     IN /\ rec' = [rec EXCEPT !.data = written, !.op = "update",
                               !.got = WithPublicKey(SpreadDoc(1, written))]
        /\ UNCHANGED beyondReads

InitReads ==
  /\ \E c \in Collections : \E d \in StoredData(c) :
       rec = [NoRead EXCEPT !.collection = c, !.data = d]
  /\ auth = NoAuth
  /\ query = NoQuery
  /\ dbs = << << >> >>
  /\ origin \in OriginFilters /\ origin.itemsPerPage = DefaultLimit
  /\ url = SyncUrl(origin)
  /\ Unmounted
  /\ tasks = << >>
  /\ hist = NoHistory
  /\ events = 0
  /\ detail = NoDetail
  /\ noteCalls = << >>
  /\ coll = << >>
  /\ clock = 0
  /\ outcome = NoOutcome
  /\ usersDb = << >>
  /\ logins = << >>

NextReads ==
  \/ \E op \in {"getAll", "getById"} : ReadLead(op)
  \/ UpdateLead
  \/ ReadRelated
  \/ ReadNotes
  \/ UpdateNote

SpecReads == InitReads /\ [][NextReads]_vars

\* ------------------------------------------------------------------------
\* leadsAPI.getAll called on its own, with any parameters, on a collection
\* that nothing writes
\* ------------------------------------------------------------------------
\* Largest page and largest limit of a call.
MaxQueryPage == 3
MaxQueryLimit == 3

QueryParams ==
  [status : StatusFilters \cup {NoStatus},
   search : SearchPool \cup {NoStr},
   page : (1..MaxQueryPage) \cup {NoNum},
   limit : (1..MaxQueryLimit) \cup {NoNum}]

\* what the call does not touch
beyondQuery ==
  <<dbs, tasks, hist, events, dashboard, detail, noteCalls, coll, clock, outcome,
    usersDb, logins, rec, auth>>

\* leadsAPI.getAll(query.params)
CallGetAll ==
  /\ ~query.called
  /\ LET r == Response(query.params, db, db, db)
     IN query' = [query EXCEPT !.called = TRUE, !.data = r.data, !.total = r.total,
                               !.totalPages = r.totalPages, !.stats = r.stats]
  /\ UNCHANGED beyondQuery

InitQuery ==
  /\ \E n \in 0..MaxLeads, u \in BOOLEAN : dbs = <<SeedCollection(n, u)>>
  /\ \E p \in QueryParams : query = [NoQuery EXCEPT !.params = p]
  /\ rec = NoRead
  /\ auth = NoAuth
  /\ origin \in OriginFilters /\ origin.itemsPerPage = DefaultLimit
  /\ url = SyncUrl(origin)
  /\ Unmounted
  /\ tasks = << >>
  /\ hist = NoHistory
  /\ events = 0
  /\ detail = NoDetail
  /\ noteCalls = << >>
  /\ coll = << >>
  /\ clock = 0
  /\ outcome = NoOutcome
  /\ usersDb = << >>
  /\ logins = << >>

NextQuery == CallGetAll

SpecQuery == InitQuery /\ [][NextQuery]_vars

\* ------------------------------------------------------------------------
\* AuthProvider: contexts/AuthContext.tsx.  auth.stored is the item of
\* localStorage under AUTH_STORAGE_KEY (NoUser when there is none), auth.user
\* the user of the context, auth.pending the logins suspended at
\* usersAPI.saveGoogleUser, auth.returned what the logins returned and
\* auth.saves the number of calls of usersAPI.saveGoogleUser.
\* ------------------------------------------------------------------------
\* Logins of a run.
MaxLoginCalls == 2

ALLOWED_DOMAIN ==
  <<"d", "y", "n", "a", "t", "o", "n", "d", "a", "t", "a", ".", "c", "o", "m">>

\* String.prototype.endsWith
EndsWith(str, suffix) ==
  /\ Len(str) >= Len(suffix)
  /\ \A j \in 1..Len(suffix) : str[Len(str) - Len(suffix) + j] = suffix[j]

\* the domain test with includes in the place of endsWith
HasAllowedDomainAnywhere(email) ==
  email # NoStr /\ Includes(email, <<"@">> \o ALLOWED_DOMAIN)

\* email?.endsWith(`@${ALLOWED_DOMAIN}`), undefined (falsy) without an email
HasAllowedDomain(email) ==
  email # NoStr /\ EndsWith(email, <<"@">> \o ALLOWED_DOMAIN)

\* the email claims of the credentials presented, and of the items a browser
\* may hold in localStorage
EmailPool ==
  {<<"a", "@">> \o ALLOWED_DOMAIN,
   <<"a", "@", "x", ".", "i", "o">>,
   <<"a", "@">> \o ALLOWED_DOMAIN \o <<".", "i", "o">>,
   <<"a", "@", "x">> \o ALLOWED_DOMAIN,
   NoStr}

\* the decoded payloads, and a credential that jwtDecode rejects
Credentials ==
  [sub : {"sub-1"}, email : EmailPool, given_name : {NoStr, <<"A">>},
   name : {NoStr, <<"A", " ", "b">>}, decodable : {TRUE}]
    \cup {[sub |-> "none", email |-> NoStr, given_name |-> NoStr, name |-> NoStr,
           decodable |-> FALSE]}

\* an item that JSON.parse rejects
Unparsable == [google_id |-> "unparsable", email |-> NoStr, firstName |-> NoStr]

StoredItems ==
  {NoUser, Unparsable}
    \cup {[google_id |-> "sub-1", email |-> e, firstName |-> <<"A">>] : e \in EmailPool}

\* what AuthProvider does not touch
beyondAuth ==
  <<dbs, tasks, hist, events, dashboard, detail, noteCalls, coll, clock, outcome,
    usersDb, logins, rec, query>>

\* getStoredUser, lines 41-55, as the initialiser of the user state
getStoredUser ==
  /\ ~auth.constructed
  /\ auth' = IF auth.stored # NoUser
                 /\ auth.stored # Unparsable
                 /\ HasAllowedDomain(auth.stored.email)
              THEN [auth EXCEPT !.constructed = TRUE, !.user = auth.stored]
              ELSE [auth EXCEPT !.constructed = TRUE, !.user = NoUser,
                                !.stored = NoUser]
  /\ UNCHANGED beyondAuth

Returned(cred, success, error) ==
  [email |-> cred.email, success |-> success, error |-> error]

\* login up to `await usersAPI.saveGoogleUser(...)`, or to its return when the
\* credential is rejected
login(cred) ==
  /\ auth.constructed
  /\ Len(auth.pending) + Len(auth.returned) < MaxLoginCalls
  /\ auth' =
       IF ~cred.decodable
       THEN [auth EXCEPT !.returned = Append(@, Returned(cred, FALSE, "process"))]
       ELSE IF ~HasAllowedDomain(cred.email)
       THEN [auth EXCEPT !.returned = Append(@, Returned(cred, FALSE, "restricted"))]
       ELSE [auth EXCEPT !.saves = @ + 1, !.pending = Append(@, cred)]
  /\ UNCHANGED beyondAuth

\* decoded.given_name || decoded.name.split(' ')[0]
firstName(cred) ==
  IF Truthy(cred.given_name) THEN cred.given_name
  ELSE IF \E k \in 1..Len(cred.name) : cred.name[k] = " "
  THEN SubSeq(cred.name, 1,
              (CHOOSE k \in 1..Len(cred.name) :
                 cred.name[k] = " " /\ \A j \in 1..(k - 1) : cred.name[j] # " ") - 1)
  ELSE cred.name

\* login after usersAPI.saveGoogleUser resolved or rejected (the rejection
\* is logged): setUser and localStorage.setItem, or the outer catch when
\* decoded.name.split throws
SaveSettled(i) ==
  LET cred == auth.pending[i]
      userData == [google_id |-> cred.sub, email |-> cred.email,
                   firstName |-> firstName(cred)]
  IN /\ auth' =
          IF ~Truthy(cred.given_name) /\ cred.name = NoStr
          THEN [auth EXCEPT !.pending = Without(@, i),
                            !.returned = Append(@, Returned(cred, FALSE, "process"))]
          ELSE [auth EXCEPT !.pending = Without(@, i),
                            !.user = userData, !.stored = userData,
                            !.returned = Append(@, Returned(cred, TRUE, "none"))]
     /\ UNCHANGED beyondAuth

logout ==
  /\ auth.constructed /\ auth.user # NoUser
  /\ auth' = [auth EXCEPT !.user = NoUser, !.stored = NoUser]
  /\ UNCHANGED beyondAuth

InitAuth ==
  /\ \E item \in StoredItems : auth = [NoAuth EXCEPT !.stored = item]
  /\ rec = NoRead
  /\ query = NoQuery
  /\ dbs = << << >> >>
  /\ origin \in OriginFilters /\ origin.itemsPerPage = DefaultLimit
  /\ url = SyncUrl(origin)
  /\ Unmounted
  /\ tasks = << >>
  /\ hist = NoHistory
  /\ events = 0
  /\ detail = NoDetail
  /\ noteCalls = << >>
  /\ coll = << >>
  /\ clock = 0
  /\ outcome = NoOutcome
  /\ usersDb = << >>
  /\ logins = << >>

NextAuth ==
  \/ getStoredUser
  \/ \E cred \in Credentials : login(cred)
  \/ \E i \in 1..Len(auth.pending) : SaveSettled(i)
  \/ logout

SpecAuth == InitAuth /\ [][NextAuth]_vars

\* ------------------------------------------------------------------------
\* Properties
\* ------------------------------------------------------------------------
\* Nothing is suspended: every call made so far has run its continuation.
Quiescent == mounted /\ tasks = << >>

\* The displayed list is a response of leadsAPI.getAll, as it was applied.
ThinShown == shown.path = "thin" /\ ~shown.patched

\* The version of the collection the getDocs of the displayed response read.
ShownStore == dbs[shown.read[1]]

AsShown(docs) == [i \in 1..Len(docs) |-> toAPILead(docToLead(docs[i]))]

\* C1: when a list fetch of the state before a delete of lead X is in flight
\* during the delete, the list displayed once every call has completed does
\* not contain X, whatever the order of completion.  (Stated for runs in
\* which no call failed and for lists that came from the backend; a lead is
\* in hist.deleted once the continuation of its delete has run.)
C1_DeletedLeadNotDisplayed ==
  (Quiescent /\ ~hist.listFailed /\ hist.failures = 0 /\ shown.path = "thin")
    => \A x \in hist.deleted : x \notin IdsOf(leads)

\* C2: once all fetches have completed (none of them failed), the displayed
\* list is the response to the request of the current filter state: a
\* superseded fetch has not overwritten it.
C2_DisplayedIsLatestRequest ==
  (Quiescent /\ ~hist.listFailed /\ shown.seq # 0)
    => shown.params = ListParams(Closure)

\* A REST backend that filters by status and search over the whole
\* collection and paginates server-side (the remote service of
\* services/api.ts, REST version).
RestGetAll(store, params) ==
  LET p == Destructure(params)
      byStatus ==
        IF p.status = "contacted"
        THEN SelectSeq(store, LAMBDA d : d.status \in ContactedStatuses)
        ELSE IF p.status = "not_contacted"
        THEN SelectSeq(store, LAMBDA d : d.status \in {"new", Absent})
        ELSE store
      bySearch ==
        IF Truthy(p.search)
        THEN SelectSeq(byStatus, LAMBDA d :
               Includes(ToLowerCase(d.business_name), ToLowerCase(p.search)))
        ELSE byStatus
  IN [success |-> TRUE,
      data |-> AsShown(Slice(bySearch, (p.page - 1) * p.limit, p.page * p.limit)),
      total |-> Len(bySearch),
      page |-> p.page,
      limit |-> p.limit]

\* C3: for status in {all, contacted} (not_contacted is the documented
\* approximation) the data the document-store adapter returns for
\* {status, search, page, limit} is the data of the REST backend.
C3_AdapterMatchesRest ==
  (ThinShown /\ Destructure(shown.params).status # "not_contacted")
    => leads = RestGetAll(ShownStore, shown.params).data

SnapshotIsCollection == allLeadsForCategories = AsShown(db)

EveryLeadInCategory ==
  \A i \in 1..Len(db) :
    /\ db[i].category # EmptyStr
    /\ ToLowerCase(mainCategory(db[i])) = ToLowerCase(categoryFilter)

StatusOnlyOrSearchOnly == (statusFilter # "all") # (searchQuery # EmptyStr)

\* C4: with a category selected that every lead has, a snapshot that holds the
\* whole collection and a status-only or search-only filter, the leads the
\* in-memory path displays are the leads leadsAPI.getAll returns for the same
\* status, search, page and limit.
C4_ThickEqualsThin ==
  (/\ shown.path = "thick" /\ ~shown.patched
   /\ leads = ThickPage(Closure)
   /\ SnapshotIsCollection /\ EveryLeadInCategory /\ StatusOnlyOrSearchOnly)
    => IdsOf(leads) = IdsOf(getAll(db, ListParams(Closure)).data)

\* C5: listLeads returns the elements of the creation-descending sequence at
\* positions [(page-1)*limit, page*limit).  (Stated without status filter and
\* search text, where the filtered sequence is the collection.)
C5_PageWindow ==
  (/\ ThinShown
   /\ Destructure(shown.params).status = "all"
   /\ ~Truthy(shown.params.search))
    => leads = AsShown(Slice(ShownStore, (shown.page - 1) * shown.limit,
                             shown.page * shown.limit))

\* ceil(t / l): the least k with k * l >= t
CeilDiv(t, l) == CHOOSE k \in 0..t : k * l >= t /\ \A j \in 0..(k - 1) : j * l < t

\* C6: the totalPages of a list result is ceil(total / limit), and 1 when
\* total is 0.
C6_TotalPages ==
  shown.seq # 0
    => totalPages = IF total = 0 THEN 1 ELSE CeilDiv(total, shown.limit)

NumContacted(rows) ==
  Cardinality({k \in 1..Len(rows) :
                 rows[k].status \in {"contacted", "qualified", "converted"}})

\* C7 as claimed: after a completed fetch the stats displayed are the counts
\* over the whole collection, under every filter.  (Stated for runs without
\* a write, where the collection is the same at every read.)
C7_StatsAlwaysGlobal ==
  (Quiescent /\ shown.seq # 0 /\ Len(dbs) = 1)
    => stats = [all |-> Len(db), contacted |-> NumContacted(db),
                notContacted |-> Len(db) - NumContacted(db)]

\* C7 as amended: the stats of a response of leadsAPI.getAll are the counts
\* over the whole collection as its two count queries read it, whatever the
\* status filter and the search text; the stats of the in-memory path are the
\* counts over the filtered leads.
C7_StatsByPath ==
  /\ shown.path = "thin" =>
       /\ stats.all = Len(dbs[shown.read[2]])
       /\ stats.contacted = NumContacted(dbs[shown.read[3]])
       /\ stats.notContacted = stats.all - stats.contacted
  /\ shown.path = "thick" =>
       /\ stats.all = total
       /\ stats.notContacted = stats.all - stats.contacted
       /\ (~shown.patched /\ Len(leads) = total) => stats.contacted = NumContacted(leads)

\* C7 witness: a backend response under a status filter, whose stats count
\* more leads than the filter lets through.
C7_Witness ==
  /\ ThinShown
  /\ shown.params.status = "contacted"
  /\ stats.all > Len(leads)
  /\ stats.notContacted > 0

SameFilter(p, q) == p.status = q.status /\ p.search = q.search /\ p.limit = q.limit

\* C8: a change of filter resets the page to 1 and, once the triggered fetches
\* have completed (none failed), no result fetched for the new filter with
\* the old page number is displayed.
C8_NoResultOfOldPage ==
  (Quiescent /\ ~hist.listFailed /\ hist.oldPageSeq # 0
   /\ SameFilter(shown.params, ListParams(Closure)))
    => (currentPage = 1 /\ shown.seq # hist.oldPageSeq)

\* C9: mounting the dashboard from the URL written from a filter state gives
\* that filter state, page number included.
C9_UrlRoundTrip == mounted => Filters(Closure) = origin

\* C10: the continuation of every successful delete or status update makes
\* a request to the backend for the list and the stats.
C10_MutationRefetches ==
  [][hist'.mutations > hist.mutations
       => /\ tasks' # << >>
          /\ tasks'[Len(tasks')].kind = "list"
          /\ tasks'[Len(tasks')].seq = nIssued']_vars

\* C11: once a delete of lead X has succeeded and every call has completed
\* (none failed), the snapshot allLeadsForCategories does not contain X.
C11_SnapshotDropsDeleted ==
  (Quiescent /\ hist.failures = 0)
    => \A x \in hist.deleted : x \notin IdsOf(allLeadsForCategories)

\* The message LeadsDashboard shows for a failure: it has no error state and
\* renders no error element, its catch blocks call console.error only.
userMessage == "none"

\* C14: a step in which leadsAPI.delete, leadsAPI.update or leadsAPI.getAll
\* fails leaves the displayed leads, total, totalPages and stats as they
\* were, and shows a message to the user.
C14_FailureLeavesUIAndIsShown ==
  [][hist'.failures > hist.failures
       => /\ leads' = leads /\ total' = total
          /\ totalPages' = totalPages /\ stats' = stats
          /\ userMessage # "none"]_vars

\* the stored status of lead id in the collection store ("gone" when deleted)
StatusIn(store, id) ==
  IF Exists(store, id)
  THEN (CHOOSE d \in {store[k] : k \in 1..Len(store)} : d.id = id).status
  ELSE "gone"

\* the number of suspended calls of a kind (a modal has one at most)
Pending(ts, kind) == Cardinality({k \in 1..Len(ts) : ts[k].kind = kind})

\* the continuation of the update call t runs in this step and reports
\* success, after an update that wrote "contacted" over a status of new or
\* absent
MarkedContacted(t) ==
  /\ t.kind \in {"update", "submit"} /\ t.pc \in {"getDoc", "addDoc"}
  /\ t.newStatus = "contacted"
  /\ StatusIn(dbs[t.ver - 1], t.target) \in {"new", Absent}
  /\ Pending(tasks', t.kind) < Pending(tasks, t.kind)
  /\ hist'.mutations > hist.mutations

\* C20: when a status change from new or absent to contacted made through
\* the UI completes with success, notesAPI.create has been called for that
\* lead.
C20_NoteWithContact ==
  [][\A i \in 1..Len(tasks) :
       MarkedContacted(tasks[i])
         => \E k \in 1..Len(noteCalls') : noteCalls'[k].lead_id = tasks[i].target]_vars

\* C12: a submit of the ContactStatusModal for a lead that is not contacted
\* with note content (notes.trim(), what notesAPI.create would be given) of
\* less than 10 characters sets the error and calls neither leadsAPI.update
\* nor notesAPI.create; with 10 characters or more it calls leadsAPI.update.
C12_NoteValidation ==
  [][(detail'.h.submits > detail.h.submits /\ requiresNotes(detail.lead))
       => IF Len(Trim(detail.notes)) < 10
          THEN /\ detail'.modalError = NotesError
               /\ tasks' = tasks /\ noteCalls' = noteCalls /\ dbs' = dbs
          ELSE /\ Pending(tasks', "submit") = Pending(tasks, "submit") + 1
               /\ tasks'[Len(tasks')].pc = "updateDoc"]_vars

\* C12 witness: a submit with 9 characters of content (typed with spaces
\* around them) was rejected, and nothing has been sent.
C12_Witness ==
  /\ detail.h.submits = 1 /\ detail.h.required /\ ~detail.h.dispatched
  /\ Len(detail.h.content) = 9 /\ Len(detail.notes) > 9
  /\ detail.modalError = NotesError
  /\ tasks = << >> /\ noteCalls = << >> /\ Len(dbs) = 1

\* An error is on screen: the error page of LeadDetailsPage, or the error
\* line of the open modal.
ErrorOnScreen ==
  \/ detail.error # "none"
  \/ detail.showStatusModal /\ detail.modalError # "none"

\* C13: when the status update of a mark-contacted submit succeeded and its
\* notesAPI.create fails, the version of the store written by that update
\* carries the new status and the failure writes nothing, onSuccess is called
\* with the lead that the update returned, the modal closes and no error is
\* shown; as long as no later update of the lead was stored, the stored
\* status and the status of the lead given to onSuccess are the new status.
C13_NoteFailureTolerated ==
  [][detail'.h.noteFailures > detail.h.noteFailures
       => /\ dbs' = dbs
          /\ \E i \in 1..Len(tasks) :
               /\ tasks[i].kind = "submit" /\ tasks[i].pc = "addDoc"
               /\ tasks' = Without(tasks, i)
               /\ tasks[i].target = detail.lead._id
               /\ StatusIn(dbs[tasks[i].ver], tasks[i].target) = "contacted"
               /\ detail'.h.updated = tasks[i].c.updated
               /\ tasks[i].ver = Len(dbs)
                    => /\ StatusIn(db', detail.lead._id) = "contacted"
                       /\ detail'.h.updated.status = "contacted"
          /\ detail'.h.succeeded = detail.h.succeeded + 1
          /\ detail'.h.updated._id = detail.lead._id
          /\ detail'.lead = detail'.h.updated
          /\ ~detail'.showStatusModal /\ ~detail'.modalLoading
          /\ ~ErrorOnScreen']_vars

\* C13 witness: the note write failed after the update was stored.
C13_Witness ==
  /\ detail.h.noteFailures = 1 /\ detail.h.succeeded = 1
  /\ Len(noteCalls) = 1 /\ ~noteCalls[1].stored
  /\ StatusIn(db, detail.id) = "contacted"
  /\ StatusIn(dbs[1], detail.id) \in {"new", Absent, "lost"}
  /\ ~detail.showStatusModal

\* Every place that classifies the stored document d gives contacted
\* exactly when its status is contacted, qualified or converted.
ContactedEverywhere(d) ==
  LET l == toAPILead(docToLead(d))
      c == d.status \in {"contacted", "qualified", "converted"}
  IN /\ isContacted(l) = c
     /\ ThickIsContacted(l) = c
     /\ ModalIsContacted(l) = c
     /\ DetailsIsContacted(l) = c
     /\ IsContactedStatus(d.status) = c

\* Every place that classifies the stored document d gives not contacted.
NotContactedEverywhere(d) ==
  LET l == toAPILead(docToLead(d))
  IN /\ ~isContacted(l) /\ ~ThickIsContacted(l)
     /\ ~ModalIsContacted(l) /\ ~DetailsIsContacted(l)
     /\ ~IsContactedStatus(d.status)
     /\ ThickIsNotContacted(l)
     /\ IsNotContactedLead(docToLead(d))
     /\ requiresNotes(l) /\ ModalNewStatus(l) = "contacted"

\* C16: every place that classifies a lead of the collection treats it as
\* contacted iff its status is contacted, qualified or converted, and as not
\* contacted when its status is new or absent; what the UI is given for a
\* lead with absent status is what it is given for the same lead with
\* status new.
C16_SameDerivation ==
  \A k \in 1..Len(db) :
    /\ ContactedEverywhere(db[k])
    /\ db[k].status \in {"new", Absent} => NotContactedEverywhere(db[k])
    /\ db[k].status = Absent
         => docToLead(db[k]) = docToLead([db[k] EXCEPT !.status = "new"])

\* C16 witness: a lead stored without status is listed under the
\* not_contacted filter, and a lead has been marked through the dashboard.
C16_Witness ==
  /\ ThinShown /\ shown.params.status = "not_contacted"
  /\ \E k \in 1..Len(leads) : StatusIn(db, leads[k]._id) = Absent
  /\ Len(dbs) > 1 /\ hist.mutations > 0

LeadStatuses == {"new", "contacted", "qualified", "converted", "lost"}

\* C17: after any sequence of dashboard and details-page actions the stored
\* status of every lead is one of the five statuses, or absent.
C17_StoredStatusValid ==
  \A v \in 1..Len(dbs) : \A k \in 1..Len(dbs[v]) :
    dbs[v][k].status \in LeadStatuses \cup {Absent}

\* C17 witness: the modal has written a status (the details page), or the
\* dashboard has (its confirm), and a field edit has been stored.
C17_Witness ==
  /\ Len(dbs) = 3
  /\ detail.h.succeeded = 1 /\ detail.h.updated.status = "new"
  /\ StatusIn(dbs[1], detail.id) = "qualified"
  /\ StatusIn(db, detail.id) = "new"

\* C15: getById, update and delete of an id that is not in the collection
\* signal not-found: none reports success, and the outcome is not that of a
\* transport failure.
C15_NotFoundSignalled ==
  (outcome.op # "none" /\ ~outcome.known /\ outcome.result # "unavailable")
    => outcome.result \in {"Lead not found", "not-found"}

\* C19: the data leadsAPI.update writes carries neither _id nor id, whatever
\* the payload, its updated_at is the time of the call, and no stored
\* document has got a key field.
C19_UpdateWritesNoKey ==
  /\ (outcome.op = "update" /\ outcome.result = "ok")
       => /\ "_id" \notin DOMAIN outcome.written
          /\ "id" \notin DOMAIN outcome.written
          /\ outcome.written["updated_at"] = outcome.at
          /\ outcome.id \in DOMAIN coll
          /\ coll[outcome.id]["updated_at"] = outcome.at
          /\ docToLeadOf(outcome.id, coll[outcome.id]).id = outcome.id
  /\ \A i \in DOMAIN coll : DOMAIN coll[i] \cap {"_id", "id"} = {}

\* C19 witness: an update whose payload carried _id, id and an updated_at of
\* its own has been written.
C19_Witness ==
  /\ outcome.op = "update" /\ outcome.result = "ok"
  /\ DOMAIN outcome.written = {"status", "phone", "updated_at"}
  /\ outcome.at = MaxCalls
  /\ coll[outcome.id]["status"] = "contacted"
  /\ coll[outcome.id]["updated_at"] = MaxCalls

\* C18: whatever the interleaving of the saveGoogleUser calls, the users
\* collection holds at most one record per google_id, and of the calls that
\* returned for a google_id at most one, the one that created its record,
\* has isNew true.
C18_OneUserPerGoogleId ==
  \A g \in GoogleIds :
    /\ Len(UsersWith(g)) <= 1
    /\ Cardinality({i \in 1..Len(logins) :
                      logins[i].google_id = g /\ logins[i].isNew}) <= 1

\* the lead passes the category filter: the first comma-separated token of
\* its category, trimmed, is the selected category, whatever the case
InCategory(lead, category) ==
  /\ lead.category # EmptyStr
  /\ ToLowerCase(Trim(FirstToken(lead.category))) = ToLowerCase(category)

\* C21: whenever the category filter is not 'all' and every fetch made so far
\* has completed, every displayed lead has a category whose first
\* comma-separated, trimmed token is the selected category, case-insensitively;
\* also after a mount from a URL carrying a category and when the snapshot
\* fetch failed or returned no leads.
C21_CategoryHonoured ==
  (Quiescent /\ categoryFilter # ALL /\ shown.seq # 0)
    => \A i \in 1..Len(leads) : InCategory(leads[i], categoryFilter)

\* C22: across the operations the dashboard and the lead detail page make, no
\* stored field of a lead other than status and updated_at is changed by
\* leadsAPI.update.  (The half about the lead_id of a note is not part of
\* this formula: neither page calls notesAPI.update.)
C22_OnlyStatusWritten ==
  [][outcome'.op = "update"
       => \A id \in DOMAIN coll \cap DOMAIN coll' :
            \A f \in (DOMAIN coll[id] \cup DOMAIN coll'[id]) \ {"status", "updated_at"} :
              Field(coll'[id], f) = Field(coll[id], f)]_vars

TimestampFields == {"created_at", "updated_at", "contact_date", "processed_at"}

\* C23: in every record a read of the adapter returns (leads from getAll,
\* getById and update, notes from getForLead and update, contacts, social
\* profiles and enrichment log entries from getById), each timestamp field is
\* a text, also when the stored value is a native timestamp.
C23_TimestampsTextual ==
  rec.op # "none"
    => \A f \in TimestampFields \cap DOMAIN rec.got : ~rec.got[f].native

\* the position in the creation-descending collection of the lead with this id
PositionOf(id) == CHOOSE k \in 1..Len(db) : db[k].id = id

\* C24: for status = contacted every record leadsService.getAll returns has a
\* status in {contacted, qualified, converted}; for status = not_contacted
\* every record returned is among the 3 * limit most recent rows and has
\* status new (new or absent in the store); no record failing the requested
\* status predicate is returned.
C24_StatusFilterSound ==
  LET p == Destructure(query.params)
  IN query.called =>
       \A i \in 1..Len(query.data) :
         LET l == query.data[i]
         IN /\ Exists(db, l._id)
            /\ p.status = "contacted" =>
                 /\ l.status \in {"contacted", "qualified", "converted"}
                 /\ db[PositionOf(l._id)].status = l.status
            /\ p.status = "not_contacted" =>
                 /\ l.status = "new"
                 /\ db[PositionOf(l._id)].status \in {"new", Absent}
                 /\ PositionOf(l._id) <= 3 * p.limit

\* C24 witness: a not_contacted call on a collection longer than 3 * limit
\* that returned a lead stored without status and left out a lost lead
\* among the rows fetched.
C24_Witness ==
  LET p == Destructure(query.params)
  IN /\ query.called /\ p.status = "not_contacted"
     /\ Len(db) > 3 * p.limit
     /\ \E i \in 1..Len(query.data) : db[PositionOf(query.data[i]._id)].status = Absent
     /\ \E k \in 1..(3 * p.limit) :
          db[k].status = "lost" /\ db[k].id \notin IdsOf(query.data)

\* the business_name of the stored lead contains the term, whatever the case
NameContains(d, term) == Includes(ToLowerCase(d.business_name), ToLowerCase(term))

\* C25: for a call with a search term and status all, every lead of the
\* collection whose business_name contains the term case-insensitively is
\* returned on some page in 1..totalPages, whatever its position in creation
\* order.
C25_SearchComplete ==
  LET p == Destructure(query.params)
  IN (query.called /\ p.status = "all" /\ Truthy(p.search))
       => \A k \in 1..Len(db) :
            NameContains(db[k], p.search)
              => \E pg \in 1..query.totalPages :
                   db[k].id \in IdsOf(Response([query.params EXCEPT !.page = pg],
                                               db, db, db).data)

\* the stored lead passes the status filter and the search of the call
MatchesQuery(d, p) ==
  /\ p.status = "contacted" => d.status \in {"contacted", "qualified", "converted"}
  /\ p.status = "not_contacted" => d.status \in {"new", Absent}
  /\ Truthy(p.search) => NameContains(d, p.search)

NumMatching(p) == Cardinality({k \in 1..Len(db) : MatchesQuery(db[k], p)})

\* C26: the total that leadsService.getAll returns is the number of leads of
\* the collection that match the requested status and search filters, and
\* totalPages is the number of pages of that many leads.
C26_TotalCountsMatches ==
  LET p == Destructure(query.params)
  IN query.called
       => /\ query.total = NumMatching(p)
          /\ query.totalPages * p.limit >= NumMatching(p)
          /\ (query.totalPages - 1) * p.limit < NumMatching(p) \/ query.totalPages = 0

\* the leads the not_contacted filter selects: status new, or no status
NumNotContacted(store) ==
  Cardinality({k \in 1..Len(store) : store[k].status \in {"new", Absent}})

\* C27: for every collection, also one with leads of status lost, the
\* notContacted of the stats (all minus contacted) is the number of leads the
\* not_contacted filter selects.
C27_NotContactedAgrees ==
  query.called => query.stats.notContacted = NumNotContacted(db)

\* C28: the loading flag of the dashboard is true whenever a list fetch
\* (fetchLeads) is in flight, for every interleaving of overlapping fetches.
\* (The step of loading to false is then taken only with no fetch in flight,
\* and loading is false once all fetches have completed.)
C28_LoadingWhileFetching ==
  (mounted /\ Pending(tasks, "list") > 0) => loading

\* C29: after any sequence of page navigation, filter changes, deletes and
\* status updates, once the triggered fetches have completed (none failed),
\* 1 <= currentPage <= totalPages.  (Stated for results with at least one
\* lead in total.)
C29_PageInRange ==
  (Quiescent /\ ~hist.listFailed /\ hist.failures = 0 /\ shown.seq # 0 /\ total > 0)
    => (1 <= currentPage /\ currentPage <= totalPages)

\* the email is a text whose last sixteen characters are @dynatondata.com
InDynatonDomain(email) ==
  /\ email # NoStr
  /\ Len(email) >= 16
  /\ SubSeq(email, Len(email) - 15, Len(email))
       = <<"@", "d", "y", "n", "a", "t", "o", "n", "d", "a", "t", "a", ".", "c", "o", "m">>

====
